---- MODULE Spec2Model ----
(***************************************************************************)
(* The component registry generator of kumo (scripts/component-registry/   *)
(* index.ts, kept as src/unnamed/part_000): main, generateRegistry,        *)
(* processComponentsInParallel and processComponent, with the cache file,   *)
(* the source, story and demo-metadata files and the output directory as   *)
(* the environment.  The process is run repeatedly; between two runs the    *)
(* environment may edit files.                                              *)
(***************************************************************************)
EXTENDS Integers, Sequences, FiniteSets, TLC

(* ---------------------------------------------------------------- bounds *)

\* Most component directories discovery can return.
MaxComponents == 9
\* Most block directories discovery can return.
MaxBlocks == 1
\* Most exceptions (a unit that throws, a write that throws) in one run.
MaxFaults == 1
\* Successive runs (SpecRuns): most runs, most file edits between them, and
\* most component and block directories.
MaxRuns == 2
MaxEdits == 1
MaxRunComponents == 2
MaxRunBlocks == 1
\* One regeneration (SpecReader): most options of a variant table entry, most
\* parts of an intersection or union type, most detected sub-components.
MaxOptions == 2
MaxParts == 2
MaxDetected == 2
\* The styles build (SpecStyles): most block directories under src/blocks.
MaxBlockDirs == 1
\* Pagination (SpecPagination): the largest page and the largest totalCount
\* the parent gives.
MaxPage == 3
MaxTotalCount == 4

(* ------------------------------------------------------------- constants *)

\* const BATCH_SIZE = 8 in processComponentsInParallel.
BATCH_SIZE == 8

\* CACHE_VERSION of cache.js: the format version this build of the tool writes.
CACHE_VERSION == 2

\* A format version an earlier build of the tool wrote.
OldVersion == CACHE_VERSION - 1

Kinds == {"component", "block"}

\* Names are compared by localeCompare; a name is modelled by its rank.
Names == 1 .. (MaxComponents + MaxBlocks)

\* The synthetic component's name: no discovered directory has it.
InputArea == MaxComponents + MaxBlocks + 1

\* A file's content; Absent is a file that does not exist.
Absent == "absent"
Contents == {"v1", "v2"}

Paths == Kinds \X Names

(* --------------------------------------------------------------- helpers *)

Range(s) == {s[i] : i \in DOMAIN s}

\* obj.field is set.
Has(obj, field) == field \in DOMAIN obj

\* obj with obj.field = value.
With(obj, field, value) == (field :> value) @@ obj

\* Array.prototype.slice(from, to) with 0-based bounds, to clipped to length.
Slice(s, from, to) ==
  LET hi == IF to < Len(s) THEN to ELSE Len(s)
  IN  IF from >= hi THEN <<>> ELSE [k \in 1 .. (hi - from) |-> s[from + k]]

\* Array.prototype.sort((a, b) => a.name.localeCompare(b.name)): stable.
RECURSIVE InsertByName(_, _)
InsertByName(sorted, r) ==
  IF sorted = <<>> THEN <<r>>
  ELSE IF sorted[Len(sorted)].name <= r.name THEN Append(sorted, r)
  ELSE Append(InsertByName(SubSeq(sorted, 1, Len(sorted) - 1), r),
              sorted[Len(sorted)])

\* SortByName with the sort left out.
SortByNameSkipped(s) == s

RECURSIVE SortByName(_)
SortByName(s) ==
  IF s = <<>> THEN <<>>
  ELSE InsertByName(SortByName(SubSeq(s, 1, Len(s) - 1)), s[Len(s)])

(* ------------------------------------------------------------- discovery *)

\* The category discovery reads from a unit's source.
CategoryOf(name) == IF name % 2 = 1 THEN "Input" ELSE "Layout"

\* A ComponentConfig: discovery's description of one directory.  Of three
\* directories, one declares no examples, one declares a list of examples and
\* one declares the empty list.
Config(kind, name) ==
  LET config == [name |-> name, type |-> kind, category |-> CategoryOf(name)]
  IN  IF name % 3 = 2 THEN With(config, "examples", <<"configured">>)
      ELSE IF name % 3 = 0 THEN With(config, "examples", <<>>)
      ELSE config

\* The orders in which a directory's entries can be listed.
Orders == {"ascending", "descending"}

\* The i-th of count directory entries in a listing of the given order.
Listed(i, count, order) == IF order = "ascending" THEN i ELSE count + 1 - i

\* discoverComponents: one config per directory under src/components, in the
\* order the directory is listed.
discoverComponents(n, order) ==
  [i \in 1 .. n |-> Config("component", Listed(i, n, order))]

\* discoverBlocks: one config per directory under src/blocks.  The first
\* block's name is base + 1: with base = n - 1 it is also a component's name.
discoverBlocks(base, nb, order) ==
  [j \in 1 .. nb |-> Config("block", base + Listed(j, nb, order))]

\* The paths processComponent hashes for a config.
PathOf(config) == <<config.type, config.name>>

(* ----------------------------------------------------------------- cache *)

\* hashFileContent: a content hash, and a sentinel for a missing file.
hashFileContent(content) ==
  IF content = Absent THEN [algo |-> "none", of |-> Absent]
  ELSE [algo |-> "sha256", of |-> content]

EmptyCache == [version |-> CACHE_VERSION, entries |-> << >>]

\* loadCache: a missing or corrupt file is an empty cache.
loadCache(file) == IF file.state = "json" THEN file.data ELSE EmptyCache

\* saveCache: the file becomes the serialised snapshot.
saveCache(newCacheMap) == [state |-> "json", data |-> newCacheMap]

HasEntry(cacheMap, name) == name \in DOMAIN cacheMap.entries

\* isValid of the cache layer.
IsValidEntry(entry, sourceHash, storyHash) ==
  /\ entry.cacheVersion = CACHE_VERSION
  /\ entry.sourceHash = sourceHash
  /\ entry.storyHash = storyHash

NoFlags == [noCache |-> FALSE, help |-> FALSE]

NoMetadata == [name |-> 0, type |-> "none", src |-> Absent, examples |-> <<>>]

\* getCachedComponent: the stored metadata, or NoMetadata (null).
getCachedComponent(name, sourceHash, storyHash, cacheMap, cliFlags) ==
  IF cliFlags.noCache THEN NoMetadata
  ELSE IF ~HasEntry(cacheMap, name) THEN NoMetadata
  ELSE IF IsValidEntry(cacheMap.entries[name], sourceHash, storyHash)
       THEN cacheMap.entries[name].metadata
       ELSE NoMetadata

\* createCacheEntry: a fresh entry stamped with the current time.
createCacheEntry(name, sourceHash, storyHash, schema, time) ==
  [componentName |-> name, sourceHash |-> sourceHash, storyHash |-> storyHash,
   cacheVersion |-> CACHE_VERSION, generatedAt |-> time, metadata |-> schema]

(* ------------------------------------------------------ processComponent *)

\* extractSemanticColors: the colour tokens a source file names.
extractSemanticColors(content) == {content}

\* if (cachedMetadata): the stored metadata is an object, null is not.
Truthy(metadata) == metadata # NoMetadata

\* The components demo-metadata.json has demos of.
DemoNames == {name \in Names : name % 2 = 1}

\* The map of a build without demo-metadata.json: new Map().
NoExamples == << >>

\* loadDemoExamples, were a missing file read all the same.
loadDemoExamplesUnguarded(file) ==
  [name \in DemoNames |-> [aiExamples |-> <<file>>]]

\* loadDemoExamples: the code of each component's demos, or, without the file,
\* a warning and the empty map.
loadDemoExamples(file) ==
  IF file = Absent THEN NoExamples
  ELSE [name \in DemoNames |-> [aiExamples |-> <<file>>]]

\* processComponent: the examples of a regenerated schema.
DetermineExamples(config, storyExamples) ==
  IF Has(config, "examples") THEN config.examples
  ELSE IF config.name \in DOMAIN storyExamples
       THEN storyExamples[config.name].aiExamples
       ELSE <<>>

\* The ComponentSchema regeneration builds from the config, the source and
\* the demo examples.
RegeneratedSchema(config, content, storyExamples) ==
  [name |-> config.name, type |-> config.type, src |-> content,
   examples |-> DetermineExamples(config, storyExamples)]

\* cache.entries[config.name]?.generatedAt || Date.now()
GeneratedAtOr(cacheMap, name, time) ==
  IF HasEntry(cacheMap, name) /\ cacheMap.entries[name].generatedAt # 0
  THEN cacheMap.entries[name].generatedAt
  ELSE time

\* CacheLookup with the source hash given for the story hash too.
CacheLookupSourceHashTwice(config, sourceHash, storyHash, cacheMap, cliFlags) ==
  getCachedComponent(config.name, sourceHash, sourceHash, cacheMap, cliFlags)

\* CacheLookup that does not hand on the command line's flags.
CacheLookupWithoutFlags(config, sourceHash, storyHash, cacheMap, cliFlags) ==
  getCachedComponent(config.name, sourceHash, storyHash, cacheMap, NoFlags)

\* The lookup processComponent makes in the loaded cache.
CacheLookup(config, sourceHash, storyHash, cacheMap, cliFlags) ==
  getCachedComponent(config.name, sourceHash, storyHash, cacheMap, cliFlags)

\* processComponent: the result for one config, from the cache or regenerated.
processComponent(config, cacheMap, cliFlags, content, story, storyExamples, time) ==
  LET sourceHash     == hashFileContent(content)
      storyHash      == hashFileContent(story)
      cachedMetadata == CacheLookup(config, sourceHash, storyHash, cacheMap, cliFlags)
      schema         == RegeneratedSchema(config, content, storyExamples)
  IN  IF Truthy(cachedMetadata)
      THEN [name |-> config.name,
            category |-> config.category,
            schema |-> cachedMetadata,
            colors |-> extractSemanticColors(content),
            cached |-> TRUE,
            cacheEntry |->
              [componentName |-> config.name, sourceHash |-> sourceHash,
               storyHash |-> storyHash, cacheVersion |-> CACHE_VERSION,
               generatedAt |-> GeneratedAtOr(cacheMap, config.name, time),
               metadata |-> cachedMetadata]]
      ELSE [name |-> config.name,
            category |-> config.category,
            schema |-> schema,
            colors |-> extractSemanticColors(content),
            cached |-> FALSE,
            cacheEntry |->
              createCacheEntry(config.name, sourceHash, storyHash, schema, time)]

\* KeysRead, were the generation time looked up under another key.
KeysReadWithNeighbour(config) == {config.name, config.name + 1}

\* The keys of cache.entries processComponent reads for a config.
KeysRead(config) == {config.name}

(* ----------------------------------------------- processComponentsInParallel *)

\* Batch with the slice's end one short: a full batch loses its last config.
BatchOneShort(configs, i) == Slice(configs, i, i + BATCH_SIZE - 1)

\* Batch with the slice's end left out: configs.slice(i).
BatchToTheEnd(configs, i) == Slice(configs, i, Len(configs))

\* configs.slice(i, i + BATCH_SIZE)
Batch(configs, i) == Slice(configs, i, i + BATCH_SIZE)

\* A promise of the batch: fulfilled with a result, or rejected.
Fulfilled(result) == [settled |-> "fulfilled", value |-> result]
Rejected(config) ==
  [settled |-> "rejected",
   value |-> [name |-> config.name, category |-> config.category,
              schema |-> NoMetadata, colors |-> {}, cached |-> FALSE,
              cacheEntry |-> createCacheEntry(config.name, hashFileContent(Absent),
                                              hashFileContent(Absent), NoMetadata, 0)]]

\* Promise.all rejects when one of its promises is rejected.
AllFulfilled(promises) ==
  \A k \in DOMAIN promises : promises[k].settled = "fulfilled"

Values(promises) == [k \in DOMAIN promises |-> promises[k].value]

NewCall(configs) ==
  [configs |-> configs, i |-> 0, promises |-> <<>>, results |-> <<>>]

(* ---------------------------------------------------------------- assembly *)

NamesOf(results) == [k \in DOMAIN results |-> results[k].name]

\* components[result.name] = result.schema, in the order of the results.
RECURSIVE BuildComponents(_)
BuildComponents(results) ==
  IF results = <<>> THEN << >>
  ELSE LET r == results[Len(results)]
       IN  (r.name :> r.schema) @@ BuildComponents(SubSeq(results, 1, Len(results) - 1))

\* extractBlockDependencies and getBlockFiles read the block's directory.
BlockSchemaOf(r, content) ==
  [name |-> r.schema.name, type |-> "block", src |-> r.schema.src,
   examples |-> r.schema.examples, files |-> content, dependencies |-> content]

RECURSIVE BuildBlocks(_, _)
BuildBlocks(results, files) ==
  IF results = <<>> THEN << >>
  ELSE LET r == results[Len(results)]
       IN  (r.name :> BlockSchemaOf(r, files[<<"block", r.name>>]))
             @@ BuildBlocks(SubSeq(results, 1, Len(results) - 1), files)

\* newCache.entries[result.name] = result.cacheEntry, components then blocks.
RECURSIVE BuildEntries(_)
BuildEntries(results) ==
  IF results = <<>> THEN << >>
  ELSE LET r == results[Len(results)]
       IN  (r.name :> r.cacheEntry) @@ BuildEntries(SubSeq(results, 1, Len(results) - 1))

\* BuildNewCache with the second loop's store left out.
BuildNewCacheOfComponents(cResults, bResults) ==
  [version |-> CACHE_VERSION, entries |-> BuildEntries(cResults)]

BuildNewCache(cResults, bResults) ==
  [version |-> CACHE_VERSION,
   entries |-> BuildEntries(cResults \o bResults)]

\* BuildByCategory with the second loop's push left out.
BuildByCategoryOfComponents(cResults, bResults) ==
  LET cats == {cResults[k].category : k \in DOMAIN cResults}
  IN  [c \in cats |->
        LET InCat(r) == r.category = c
        IN  NamesOf(SelectSeq(cResults, InCat))]

\* byCategory[result.category].push(result.name), components then blocks.
BuildByCategory(cResults, bResults) ==
  LET all == cResults \o bResults
      cats == {all[k].category : k \in DOMAIN all}
  IN  [c \in cats |->
        LET InCat(r) == r.category = c
        IN  NamesOf(SelectSeq(all, InCat))]

\* COMPONENT_STYLING_METADATA.InputArea is defined in metadata.js.
HasInputAreaStyling == TRUE

SyntheticInputArea ==
  [name |-> InputArea, type |-> "component", src |-> Absent, examples |-> <<>>]

\* The registry generateRegistry returns.  keyOrder is the order in which the
\* keys of components and of blocks were inserted, which is the order in which
\* JSON.stringify and Object.keys enumerate them.
BuildRegistry(cResults, bResults, files) ==
  LET allResults == SortByName(cResults \o bResults)
      components == BuildComponents(cResults)
      byCategory == BuildByCategory(cResults, bResults)
  IN  [version |-> "1.0.0",
       components |->
         IF HasInputAreaStyling
         THEN (InputArea :> SyntheticInputArea) @@ components
         ELSE components,
       blocks |-> BuildBlocks(bResults, files),
       search |->
         [byCategory |->
            IF HasInputAreaStyling /\ "Input" \notin DOMAIN byCategory
            THEN byCategory @@ ("Input" :> <<>>)
            ELSE byCategory,
          byName |-> NamesOf(allResults),
          byType |-> [component |-> NamesOf(cResults),
                      block |-> NamesOf(bResults)]],
       keyOrder |->
         [components |->
            IF HasInputAreaStyling
            THEN Append(NamesOf(cResults), InputArea)
            ELSE NamesOf(cResults),
          blocks |-> NamesOf(bResults)]]

NoRegistry ==
  [version |-> "none", components |-> << >>, blocks |-> << >>,
   search |-> [byCategory |-> << >>, byName |-> <<>>,
               byType |-> [component |-> <<>>, block |-> <<>>]],
   keyOrder |-> [components |-> <<>>, blocks |-> <<>>]]

(* ---------------------------------------------------------------- artifacts *)

\* JSON.stringify(registry, null, 2), generateAIContext, generateSchemasFile:
\* each artifact is a rendering of the registry it is given.
Artifact(format, registry) == [format |-> format, of |-> registry]
NoArtifact(format) == [format |-> format, of |-> NoRegistry]

(* ------------------------------------------------------------ prop schemas *)

\* A type string is kept as the sequence of its tokens; "" is <<>>.
\* strings.join(sep).
RECURSIVE Join(_, _)
Join(strings, sep) ==
  IF strings = <<>> THEN <<>>
  ELSE IF Len(strings) = 1 THEN strings[1]
  ELSE strings[1] \o <<sep>> \o Join(Tail(strings), sep)

\* The type names that include "ReactNode" or "ReactElement".
ReactNames == {"ReactNode", "ReactElement"}

\* t.includes("React") for a type string t.
IncludesReact(t) == \E k \in DOMAIN t : t[k] \in ReactNames

\* A JSON schema's "type": a name, or a list of names.
TypeName(name) == [isList |-> FALSE, names |-> <<name>>]
TypeList(names) == [isList |-> TRUE, names |-> names]

RECURSIVE jsonSchemaTypeToString(_)
jsonSchemaTypeToString(def) ==
  IF Has(def, "ref")
  THEN LET refName == IF def.ref = "" THEN "unknown" ELSE def.ref
       IN  IF refName \in ReactNames THEN <<"ReactNode">> ELSE <<refName>>
  ELSE IF Has(def, "enum") THEN <<"enum">>
  ELSE IF Has(def, "type") /\ def.type = TypeName("array")
  THEN (IF Has(def, "items") THEN jsonSchemaTypeToString(def.items)
        ELSE <<"unknown">>) \o <<"[]">>
  ELSE IF Has(def, "anyOf") \/ Has(def, "oneOf")
  THEN LET types == IF Has(def, "anyOf") THEN def.anyOf ELSE def.oneOf
           strings == [k \in DOMAIN types |-> jsonSchemaTypeToString(types[k])]
           Kept(t) == t # <<"undefined">> /\ t # <<"null">>
           typeStrings == SelectSeq(strings, Kept)
       IN  IF \E k \in DOMAIN typeStrings : IncludesReact(typeStrings[k])
           THEN <<"ReactNode">>
           ELSE Join(typeStrings, "|")
  ELSE IF Has(def, "type")
  THEN IF def.type.isList
       THEN Join([k \in DOMAIN def.type.names |-> <<def.type.names[k]>>], "|")
       ELSE def.type.names
  ELSE <<"unknown">>

\* resolveRef: the definition a $ref names, or def itself.
resolveRef(def, allDefinitions) ==
  IF ~Has(def, "ref") THEN def
  ELSE IF def.ref \in DOMAIN allDefinitions THEN allDefinitions[def.ref]
  ELSE def

\* A variant table entry: an object of options (names and vals in declaration
\* order), or an array of option names (KUMO_TABS_VARIANTS.variant).
OptionsObject(names, vals) == [isArray |-> FALSE, names |-> names, vals |-> vals]
OptionsArray(names) == [isArray |-> TRUE, names |-> names, vals |-> <<>>]

\* Object.keys(variantDef): an array's keys are its indices.
ObjectKeys(variantDef) ==
  IF variantDef.isArray
  THEN [i \in DOMAIN variantDef.names |-> ToString(i - 1)]
  ELSE variantDef.names

\* The map filled by "if (val.field) map[key] = val.field" over
\* Object.entries(variantDef); an array's entries are strings, with no fields.
FieldMap(variantDef, field) ==
  IF variantDef.isArray THEN << >>
  ELSE LET Set(i) == Has(variantDef.vals[i], field) /\ variantDef.vals[i][field] # ""
           keys == {variantDef.names[i] : i \in {j \in DOMAIN variantDef.names : Set(j)}}
       IN  [key \in keys |->
              variantDef.vals[CHOOSE i \in DOMAIN variantDef.names :
                                variantDef.names[i] = key][field]]

\* prop with prop.field = map when the map has a key.
WithNonEmpty(prop, field, map) ==
  IF DOMAIN map # {} THEN With(prop, field, map) ELSE prop

convertToPropSchema(propName, def, required, variants, defaults, allDefinitions) ==
  LET resolvedDef == resolveRef(def, allDefinitions)
      typed == [type |-> jsonSchemaTypeToString(def)]
      flagged == IF required THEN With(typed, "required", TRUE)
                 ELSE With(typed, "optional", TRUE)
      described == IF Has(def, "description")
                   THEN With(flagged, "description", def.description)
                   ELSE flagged
      enumerated ==
        IF Has(def, "enum")
        THEN With(With(described, "values", def.enum), "type", <<"enum">>)
        ELSE IF Has(resolvedDef, "enum")
        THEN With(With(described, "values", resolvedDef.enum), "type", <<"enum">>)
        ELSE described
      enriched ==
        IF propName \in DOMAIN variants
        THEN LET variantDef == variants[propName]
                 valued == With(With(enumerated, "values", ObjectKeys(variantDef)),
                                "type", <<"enum">>)
             IN  WithNonEmpty(
                   WithNonEmpty(
                     WithNonEmpty(valued, "descriptions",
                                  FieldMap(variantDef, "description")),
                     "classes", FieldMap(variantDef, "classes")),
                   "stateClasses", FieldMap(variantDef, "stateClasses"))
        ELSE enumerated
  IN  IF propName \in DOMAIN defaults
      THEN With(enriched, "default", defaults[propName])
      ELSE enriched

\* {...a, ...b}: b's keys over a's.
Spread(a, b) == b @@ a

\* shouldSkipProp: the internal React props that are never documented.
InternalProps == {"key"}
shouldSkipProp(propName) == propName \in InternalProps

\* generatePropsFromType: the while loop that follows mainDef.$ref.
RECURSIVE FollowRefs(_, _)
FollowRefs(mainDef, definitions) ==
  IF /\ Has(mainDef, "ref")
     /\ ~Has(mainDef, "properties")
     /\ ~Has(mainDef, "allOf")
     /\ ~Has(mainDef, "anyOf")
     /\ ~Has(mainDef, "oneOf")
     /\ mainDef.ref \in DOMAIN definitions
  THEN FollowRefs(definitions[mainDef.ref], definitions)
  ELSE mainDef

NothingCollected == [properties |-> << >>, required |-> <<>>]

\* collectFromParts: the properties and required names of the parts.
RECURSIVE collectFromParts(_, _)
collectFromParts(parts, definitions) ==
  IF parts = <<>> THEN NothingCollected
  ELSE
    LET sofar == collectFromParts(SubSeq(parts, 1, Len(parts) - 1), definitions)
        part == parts[Len(parts)]
        refDef == definitions[part.ref]
        own == [properties |->
                  IF Has(refDef, "properties")
                  THEN Spread(sofar.properties, refDef.properties)
                  ELSE sofar.properties,
                required |->
                  IF Has(refDef, "required")
                  THEN sofar.required \o refDef.required
                  ELSE sofar.required]
        nested == collectFromParts(refDef.allOf, definitions)
    IN  IF Has(part, "ref")
        THEN IF part.ref \in DOMAIN definitions
             THEN IF Has(refDef, "allOf")
                  THEN [properties |-> Spread(own.properties, nested.properties),
                        required |-> own.required \o nested.required]
                  ELSE own
             ELSE sofar
        ELSE IF Has(part, "properties")
        THEN [properties |-> Spread(sofar.properties, part.properties),
              required |-> IF Has(part, "required")
                           THEN sofar.required \o part.required
                           ELSE sofar.required]
        ELSE sofar

\* generatePropsFromType: allProperties and allRequired of a union's members.
RECURSIVE SpreadAll(_)
SpreadAll(memberProps) ==
  IF memberProps = <<>> THEN << >>
  ELSE Spread(SpreadAll(SubSeq(memberProps, 1, Len(memberProps) - 1)),
              memberProps[Len(memberProps)].properties)

RequiredInAll(memberProps) ==
  {prop \in DOMAIN SpreadAll(memberProps) :
     \A k \in DOMAIN memberProps : prop \in Range(memberProps[k].required)}

\* generatePropsFromType: allProperties and allRequired of mainDef.
Collected(mainDef, definitions) ==
  IF Has(mainDef, "allOf")
  THEN LET result == collectFromParts(mainDef.allOf, definitions)
       IN  [properties |-> result.properties, required |-> Range(result.required)]
  ELSE IF Has(mainDef, "anyOf") \/ Has(mainDef, "oneOf")
  THEN LET unionMembers == IF Has(mainDef, "anyOf") THEN mainDef.anyOf
                           ELSE mainDef.oneOf
           memberProps == [k \in DOMAIN unionMembers |->
                             collectFromParts(<<unionMembers[k]>>, definitions)]
       IN  [properties |-> SpreadAll(memberProps),
            required |-> RequiredInAll(memberProps)]
  ELSE IF Has(mainDef, "properties")
  THEN [properties |-> mainDef.properties,
        required |-> IF Has(mainDef, "required") THEN Range(mainDef.required)
                     ELSE {}]
  ELSE [properties |-> << >>, required |-> {}]

\* generatePropsFromVariantsOnly: the fallback.
generatePropsFromVariantsOnly(config) ==
  LET VariantProp(propName) ==
        LET variantDef == config.variants[propName]
            valued == [type |-> <<"enum">>, values |-> ObjectKeys(variantDef)]
            defaulted ==
              IF Has(config.defaults, propName) /\ config.defaults[propName] # ""
              THEN With(valued, "default", config.defaults[propName])
              ELSE valued
        IN  WithNonEmpty(defaulted, "descriptions",
                         FieldMap(variantDef, "description"))
      props == [propName \in DOMAIN config.variants |-> VariantProp(propName)]
      className == [type |-> <<"string">>, description |-> "Additional CSS classes"]
      children == [type |-> <<"ReactNode">>, description |-> "Child elements"]
  IN  With(With(props, "className", className), "children", children)

\* What tsj.createGenerator(tsjConfig).createSchema(propsType) does: it throws,
\* or it returns a schema with definitions.
Throws == [throws |-> TRUE, definitions |-> << >>]
Schema(definitions) == [throws |-> FALSE, definitions |-> definitions]

generatePropsFromType(config, tsj) ==
  IF tsj.throws THEN generatePropsFromVariantsOnly(config)
  ELSE IF config.propsType \notin DOMAIN tsj.definitions THEN << >>
  ELSE
    LET mainDef == FollowRefs(tsj.definitions[config.propsType], tsj.definitions)
        all == Collected(mainDef, tsj.definitions)
    IN  [propName \in {n \in DOMAIN all.properties : ~shouldSkipProp(n)} |->
           convertToPropSchema(propName, all.properties[propName],
                               propName \in all.required, config.variants,
                               config.defaults, tsj.definitions)]

(* ----------------------------------------- processComponent: regeneration *)

\* processComponent: the props of ADDITIONAL_COMPONENT_PROPS[config.name] are
\* added, or give their type and description to the prop of that name.
ApplyAdditionalProps(props, additionalProps) ==
  [propName \in DOMAIN props \cup DOMAIN additionalProps |->
     IF propName \notin DOMAIN additionalProps THEN props[propName]
     ELSE IF propName \notin DOMAIN props THEN additionalProps[propName]
     ELSE LET propSchema == additionalProps[propName]
              typed == IF Has(propSchema, "type") /\ propSchema.type # <<>>
                       THEN With(props[propName], "type", propSchema.type)
                       ELSE props[propName]
          IN  IF Has(propSchema, "description") /\ propSchema.description # ""
              THEN With(typed, "description", propSchema.description)
              ELSE typed]

\* processComponent: PROP_TYPE_OVERRIDES[config.name] replaces the type of the
\* props it names.
ApplyTypeOverrides(props, typeOverrides) ==
  [propName \in DOMAIN props |->
     IF propName \in DOMAIN typeOverrides
     THEN With(props[propName], "type", typeOverrides[propName])
     ELSE props[propName]]

\* PASSTHROUGH_COMPONENT_DOCS of metadata.js: the documentation of the base
\* primitives, by name; not every primitive has an entry, and usageExamples
\* and renderElement are optional.
PASSTHROUGH_COMPONENT_DOCS ==
  ("Popup" :> [description |-> "docs of Popup",
               props |-> [from |-> "docs", of |-> "Popup"],
               usageExamples |-> <<"<Popup />">>,
               renderElement |-> "div"])
  @@ ("Arrow" :> [description |-> "docs of Arrow",
                  props |-> [from |-> "docs", of |-> "Arrow"]])

\* extractSubComponentProps of sub-components.js: the props read from source.
extractSubComponentProps(subComp) == [from |-> "source", of |-> subComp.name]

\* The value of a field that is not set.
Undefined == "undefined"
Get(obj, field) == IF Has(obj, field) THEN obj[field] ELSE Undefined

\* HasPassthroughDoc, were the documentation looked up for every member with
\* a base component.
HasPassthroughDocOfAnyBase(subComp) ==
  /\ Has(subComp, "baseComponent")
  /\ subComp.baseComponent \in DOMAIN PASSTHROUGH_COMPONENT_DOCS

\* processComponent: the passthroughDoc of a sub-component, if it has one.
HasPassthroughDoc(subComp) ==
  /\ subComp.isPassThrough
  /\ Has(subComp, "baseComponent")
  /\ subComp.baseComponent \in DOMAIN PASSTHROUGH_COMPONENT_DOCS

\* One optional field of an object literal: ...(value && { field: value }).
WithDefined(obj, field, value) ==
  IF value # Undefined THEN With(obj, field, value) ELSE obj

\* processComponent: subComponentSchemas[subComp.name].
SubComponentSchemaOf(subComp) ==
  LET passthroughDoc == PASSTHROUGH_COMPONENT_DOCS[subComp.baseComponent]
      documented == HasPassthroughDoc(subComp)
      core == [name |-> subComp.name,
               description |-> IF documented THEN passthroughDoc.description
                               ELSE Get(subComp, "description"),
               props |-> IF documented THEN passthroughDoc.props
                         ELSE extractSubComponentProps(subComp)]
      flagged == IF subComp.isPassThrough THEN With(core, "isPassThrough", TRUE)
                 ELSE core
      based == WithDefined(flagged, "baseComponent", Get(subComp, "baseComponent"))
      exemplified ==
        WithDefined(based, "usageExamples",
                    IF documented THEN Get(passthroughDoc, "usageExamples")
                    ELSE Undefined)
  IN  WithDefined(exemplified, "renderElement",
                  IF documented THEN Get(passthroughDoc, "renderElement")
                  ELSE Undefined)

\* processComponent: the loop over detectedSubComponents; a later member of
\* the same name replaces the earlier one.
RECURSIVE SubComponentSchemas(_)
SubComponentSchemas(detected) ==
  IF detected = <<>> THEN << >>
  ELSE LET subComp == detected[Len(detected)]
       IN  With(SubComponentSchemas(SubSeq(detected, 1, Len(detected) - 1)),
                subComp.name, SubComponentSchemaOf(subComp))

\* processComponent: subComponentSchemas stays undefined for an empty list.
NoSubComponents == [defined |-> FALSE, schemas |-> << >>]

\* DetectedSubComponentSchemas, were the map made for an empty list too.
SubComponentSchemasAlways(detected) ==
  [defined |-> TRUE, schemas |-> SubComponentSchemas(detected)]

DetectedSubComponentSchemas(detected) ==
  IF Len(detected) > 0
  THEN [defined |-> TRUE, schemas |-> SubComponentSchemas(detected)]
  ELSE NoSubComponents

\* processComponent: the ComponentSchema of a regenerated unit.
ComponentSchemaOf(config, props, subComponentSchemas) ==
  LET core == [name |-> config.name, type |-> config.type,
               importPath |-> "@cloudflare/kumo", category |-> config.category,
               props |-> props]
  IN  IF subComponentSchemas.defined
      THEN With(core, "subComponents", subComponentSchemas.schemas)
      ELSE core

(* -------------------------------------------------------------------- state *)

VARIABLES
  pc,               \* where main is: "idle" when the process is not running
  run,              \* runs started so far
  runsLeft,         \* runs the behaviour may still start
  outcome,          \* how the last run ended: "none", "help", "done", "failed"
  cliFlags,         \* CLI_FLAGS and the --help test of main
  dirs,             \* the directories under src/components and src/blocks
  srcFile,          \* each unit's source file
  storyFile,        \* each unit's story file
  demoFile,         \* kumo-docs-astro/dist/demo-metadata.json
  cacheFile,        \* .cache/component-registry-cache.json
  outDir,           \* ai/: component-registry.json, component-registry.md, schemas.ts
  COMPONENTS,       \* generateRegistry: the discovered components
  BLOCKS,           \* generateRegistry: the discovered blocks
  cache,            \* generateRegistry: the loaded cache
  storyExamples,    \* generateRegistry: the loaded demo examples
  call,             \* the running processComponentsInParallel: configs, i, promises, results
  componentResults, \* generateRegistry: the first call's results
  blockResults,     \* generateRegistry: the second call's results
  newCache,         \* generateRegistry: the cache being built
  registry,         \* the registry generateRegistry returned to main
  editsLeft,        \* edits the environment may still make
  faultsLeft,       \* exceptions that may still be thrown
  log,              \* this run's events, for the properties: started and settled
                    \* units, cache file reads and writes, cache keys read
  prev,             \* the run before this one: its outcome, flags, files and registry
  reader,           \* one regeneration in processComponent, step by step: its
                    \* inputs, its position and what it has computed so far
  styles,           \* the styles build (build-css): its files and its position
  pagination        \* a mounted Pagination: its props, its state and its parent

generator == <<pc, run, runsLeft, outcome, cliFlags, dirs, srcFile, storyFile,
               demoFile, cacheFile, outDir, COMPONENTS, BLOCKS, cache, storyExamples,
               call, componentResults, blockResults, newCache, registry, editsLeft,
               faultsLeft, log, prev>>

\* The programs followed beside the generator.
aside == <<reader, styles, pagination>>

vars == <<generator, aside>>

env    == <<dirs, srcFile, storyFile, demoFile>>
locals == <<COMPONENTS, BLOCKS, cache, storyExamples, call, componentResults,
            blockResults, newCache, registry>>

EmptyLog ==
  [started |-> {}, settled |-> {}, rejected |-> {}, collected |-> {},
   processed |-> <<>>, returned |-> {}, cacheReads |-> 0, cacheWrites |-> 0,
   keysRead |-> {}, cacheAtLoad |-> EmptyCache,
   fileAtStart |-> [state |-> "missing", data |-> EmptyCache],
   outAtStart |-> [json |-> NoArtifact("json"), md |-> NoArtifact("md"),
                   ts |-> NoArtifact("ts")]]

Files == [src |-> srcFile, story |-> storyFile, demo |-> demoFile]

\* What is kept of a build for the next one to be compared with.
BuildRecord(how, reg) ==
  [outcome |-> how, cliFlags |-> cliFlags, files |-> Files, registry |-> reg]

\* The time an earlier build stamped its entries with; Date.now() of the
\* run-th run is later.
EarlierTime == 1
Now(r) == EarlierTime + r

\* A cache file an earlier build left: an entry for each of the n components.
\* The entries were written for the files as they are now, but for the entry
\* of component 1, which was written by a tool of format version v for a
\* source of content c and a story of content st.
EarlierSnapshot(n, v, c, st) ==
  [version |-> v,
   entries |->
     [m \in 1 .. n |->
        IF m = 1
        THEN [componentName |-> m,
              sourceHash |-> hashFileContent(c),
              storyHash |-> hashFileContent(st),
              cacheVersion |-> v, generatedAt |-> EarlierTime,
              metadata |-> RegeneratedSchema(Config("component", m), c,
                                             loadDemoExamples("v0"))]
        ELSE [componentName |-> m,
              sourceHash |-> hashFileContent("v1"),
              storyHash |-> hashFileContent(Absent),
              cacheVersion |-> CACHE_VERSION, generatedAt |-> EarlierTime,
              metadata |-> RegeneratedSchema(Config("component", m), "v1",
                                             loadDemoExamples("v0"))]]]

InitialCacheFiles(n) ==
  { [state |-> "missing", data |-> EmptyCache],
    [state |-> "corrupt", data |-> EmptyCache] }
  \cup
  { [state |-> "json", data |-> EarlierSnapshot(n, v, c, st)] :
      v \in {OldVersion, CACHE_VERSION}, c \in {"v0", "v1"}, st \in {Absent, "v1"} }

\* ai/ before the first run: empty, or the three artifacts an earlier build
\* wrote, when the components' sources had other contents.
EarlierRegistry(n) ==
  LET earlier == [m \in 1 .. n |->
                    processComponent(Config("component", m), EmptyCache, NoFlags,
                                     "v0", Absent, loadDemoExamples("v0"),
                                     EarlierTime)]
  IN  BuildRegistry(earlier, <<>>, [p \in Paths |-> "v0"])

EmptyOutDir(n) ==
  { [json |-> NoArtifact("json"), md |-> NoArtifact("md"), ts |-> NoArtifact("ts")] }

InitialOutDirs(n) ==
  EmptyOutDir(n)
  \cup { [json |-> Artifact("json", EarlierRegistry(n)),
          md |-> Artifact("md", EarlierRegistry(n)),
          ts |-> Artifact("ts", EarlierRegistry(n))] }

\* The state before the first run, over at most maxN component directories and
\* maxB block directories, for a behaviour of at most runs runs and edits edits.
InitOver(maxN, maxB, runs, edits, faults, earlier, orders, demos) ==
  /\ pc = "idle"
  /\ run = 0
  /\ runsLeft = runs
  /\ outcome = "none"
  /\ cliFlags = NoFlags
  /\ \E n \in 0 .. maxN, nb \in 0 .. maxB, shared \in BOOLEAN, order \in orders :
       /\ shared => (n > 0 /\ nb > 0)
       /\ order = "descending" => n > 1
       /\ dirs = [n |-> n, nb |-> nb, base |-> IF shared THEN n - 1 ELSE n,
                  order |-> order]
       /\ cacheFile \in InitialCacheFiles(n)
       /\ outDir \in IF earlier THEN InitialOutDirs(n) ELSE EmptyOutDir(n)
  /\ srcFile = [p \in Paths |-> IF p[1] = "component" THEN "v1" ELSE "v2"]
  /\ storyFile = [p \in Paths |-> Absent]
  /\ demoFile \in demos
  /\ COMPONENTS = <<>>
  /\ BLOCKS = <<>>
  /\ cache = EmptyCache
  /\ storyExamples = NoExamples
  /\ call = NewCall(<<>>)
  /\ componentResults = <<>>
  /\ blockResults = <<>>
  /\ newCache = EmptyCache
  /\ registry = NoRegistry
  /\ editsLeft = edits
  /\ faultsLeft = faults
  /\ log = EmptyLog
  /\ prev = BuildRecord("none", NoRegistry)

\* The regeneration path is not followed step by step.
NoReader == [stage |-> "none"]

\* The styles build is not run.
NoStyles == [pc |-> "none"]

\* No Pagination is mounted.
NoPagination == [mounted |-> FALSE]

\* One run of the generator.
Init ==
  /\ InitOver(MaxComponents, MaxBlocks, 1, 0, MaxFaults, TRUE, Orders, {"v1", Absent})
  /\ reader = NoReader
  /\ styles = NoStyles
  /\ pagination = NoPagination

\* Successive runs, with edits between them, over directories listed in
\* ascending order.
InitRuns ==
  /\ InitOver(MaxRunComponents, MaxRunBlocks, MaxRuns, MaxEdits, 0, FALSE, {"ascending"},
              {"v1"})
  /\ reader = NoReader
  /\ styles = NoStyles
  /\ pagination = NoPagination

(* ------------------------------------------------------------------- main *)

\* main, were --help not looked for.
HelpNeverRequested(flags) == FALSE

\* main: process.argv.includes("--help") || process.argv.includes("-h").
HelpRequested(flags) == flags.help

\* main: parse the flags; --help prints the usage and returns.
Start ==
  /\ pc = "idle"
  /\ runsLeft > 0
  /\ run' = run + 1
  /\ runsLeft' = runsLeft - 1
  /\ \E noCache \in BOOLEAN, help \in BOOLEAN :
       /\ cliFlags' = [noCache |-> noCache, help |-> help]
       /\ IF HelpRequested([noCache |-> noCache, help |-> help])
          THEN /\ pc' = "idle"
               /\ outcome' = "help"
               /\ UNCHANGED <<locals, log>>
          ELSE /\ pc' = "discover"
               /\ outcome' = "running"
               /\ COMPONENTS' = <<>>
               /\ BLOCKS' = <<>>
               /\ cache' = EmptyCache
               /\ storyExamples' = NoExamples
               /\ call' = NewCall(<<>>)
               /\ componentResults' = <<>>
               /\ blockResults' = <<>>
               /\ newCache' = EmptyCache
               /\ registry' = NoRegistry
               /\ log' = [EmptyLog EXCEPT !.fileAtStart = cacheFile,
                                          !.outAtStart = outDir]
  /\ UNCHANGED <<aside, env, cacheFile, outDir, editsLeft, faultsLeft, prev>>

\* generateRegistry: discoverComponents and discoverBlocks.
Discover ==
  /\ pc = "discover"
  /\ COMPONENTS' = discoverComponents(dirs.n, dirs.order)
  /\ BLOCKS' = discoverBlocks(dirs.base, dirs.nb, dirs.order)
  /\ pc' = "load"
  /\ UNCHANGED <<aside, run, runsLeft, outcome, cliFlags, env, cacheFile, outDir, cache,
                 storyExamples, call, componentResults, blockResults, newCache,
                 registry, editsLeft, faultsLeft, log, prev>>

\* generateRegistry: loadCache, loadDemoExamples, and the first call of
\* processComponentsInParallel (on COMPONENTS).
Load ==
  /\ pc = "load"
  /\ cache' = loadCache(cacheFile)
  /\ storyExamples' = loadDemoExamples(demoFile)
  /\ call' = NewCall(COMPONENTS)
  /\ log' = [log EXCEPT !.cacheReads = @ + 1, !.cacheAtLoad = loadCache(cacheFile)]
  /\ pc' = "components"
  /\ UNCHANGED <<aside, run, runsLeft, outcome, cliFlags, env, cacheFile, outDir, COMPONENTS,
                 BLOCKS, componentResults, blockResults, newCache, registry,
                 editsLeft, faultsLeft, prev>>

InCall == pc \in {"components", "blocks"}

\* The position in configs of the promise batch.map creates next.
NextPosition == call.i + Len(call.promises) + 1

Mapping ==
  /\ InCall
  /\ call.i < Len(call.configs)
  /\ Len(call.promises) < Len(Batch(call.configs, call.i))

\* The build ends: main returns, or its promise rejects and is logged.
Finish(how, reg) ==
  /\ pc' = "idle"
  /\ outcome' = how
  /\ prev' = BuildRecord(how, reg)

\* batch.map: processComponent is called for the next config of the batch and
\* runs to its end (it awaits nothing); its promise is fulfilled.
ProcessUnit ==
  /\ Mapping
  /\ LET config == Batch(call.configs, call.i)[Len(call.promises) + 1]
         result == processComponent(config, cache, cliFlags,
                                    srcFile[PathOf(config)], storyFile[PathOf(config)],
                                    storyExamples, Now(run))
     IN  /\ call' = [call EXCEPT !.promises = Append(@, Fulfilled(result))]
         /\ log' = [log EXCEPT !.started = @ \cup {<<pc, NextPosition>>},
                               !.settled = @ \cup {<<pc, NextPosition>>},
                               !.processed = Append(@, <<pc, config.name>>),
                               !.keysRead = @ \cup ({PathOf(config)} \X KeysRead(config))]
  /\ UNCHANGED <<aside, pc, run, runsLeft, outcome, cliFlags, env, cacheFile, outDir, COMPONENTS,
                 BLOCKS, cache, storyExamples, componentResults, blockResults,
                 newCache, registry, editsLeft, faultsLeft, prev>>

\* batch.map: processComponent throws (an exception none of its callees
\* catches); its promise is rejected and the map goes on.
ProcessUnitThrows ==
  /\ Mapping
  /\ faultsLeft > 0
  /\ faultsLeft' = faultsLeft - 1
  /\ LET config == Batch(call.configs, call.i)[Len(call.promises) + 1]
     IN  /\ call' = [call EXCEPT !.promises = Append(@, Rejected(config))]
         /\ log' = [log EXCEPT !.started = @ \cup {<<pc, NextPosition>>},
                               !.settled = @ \cup {<<pc, NextPosition>>},
                               !.rejected = @ \cup {<<pc, NextPosition>>},
                               !.processed = Append(@, <<pc, config.name>>)]
  /\ UNCHANGED <<aside, pc, run, runsLeft, outcome, cliFlags, env, cacheFile, outDir, COMPONENTS,
                 BLOCKS, cache, storyExamples, componentResults, blockResults,
                 newCache, registry, editsLeft, prev>>

\* Awaiting, were a unit's exception thrown out of batch.map.
AwaitingAtFirstRejection ==
  /\ InCall
  /\ call.i < Len(call.configs)
  /\ \/ Len(call.promises) = Len(Batch(call.configs, call.i))
     \/ ~AllFulfilled(call.promises)

Awaiting ==
  /\ InCall
  /\ call.i < Len(call.configs)
  /\ Len(call.promises) = Len(Batch(call.configs, call.i))

\* await Promise.all(...) fulfils: results.push(...batchResults); i += BATCH_SIZE.
AwaitBatch ==
  /\ Awaiting
  /\ AllFulfilled(call.promises)
  /\ call' = [call EXCEPT !.results = @ \o Values(call.promises),
                          !.i = @ + BATCH_SIZE,
                          !.promises = <<>>]
  /\ log' = [log EXCEPT !.collected =
               @ \cup {<<pc, call.i + k>> : k \in DOMAIN call.promises}]
  /\ UNCHANGED <<aside, pc, run, runsLeft, outcome, cliFlags, env, cacheFile, outDir, COMPONENTS,
                 BLOCKS, cache, storyExamples, componentResults, blockResults,
                 newCache, registry, editsLeft, faultsLeft, prev>>

\* AwaitBatchRejects, were the rejection swallowed and the loop to go on.
AwaitBatchRejectsAndGoesOn ==
  /\ Awaiting
  /\ ~AllFulfilled(call.promises)
  /\ call' = [call EXCEPT !.results = @ \o Values(call.promises),
                          !.i = @ + BATCH_SIZE,
                          !.promises = <<>>]
  /\ UNCHANGED <<aside, pc, run, runsLeft, outcome, cliFlags, env, cacheFile, outDir, COMPONENTS,
                 BLOCKS, cache, storyExamples, componentResults, blockResults,
                 newCache, registry, editsLeft, faultsLeft, log, prev>>

\* await Promise.all(...) rejects: processComponentsInParallel, generateRegistry
\* and main reject in turn, and main().catch(console.error) logs the error.
AwaitBatchRejects ==
  /\ Awaiting
  /\ ~AllFulfilled(call.promises)
  /\ Finish("failed", NoRegistry)
  /\ UNCHANGED <<aside, run, runsLeft, cliFlags, env, cacheFile, outDir, locals, editsLeft,
                 faultsLeft, log>>

\* processComponentsInParallel returns results; generateRegistry goes on with
\* the blocks, then with the assembly.
ReturnResults ==
  /\ InCall
  /\ call.i >= Len(call.configs)
  /\ IF pc = "components"
     THEN /\ componentResults' = call.results
          /\ call' = NewCall(BLOCKS)
          /\ pc' = "blocks"
          /\ UNCHANGED blockResults
     ELSE /\ blockResults' = call.results
          /\ pc' = "assemble"
          /\ UNCHANGED <<componentResults, call>>
  /\ log' = [log EXCEPT !.returned = @ \cup {pc}]
  /\ UNCHANGED <<aside, run, runsLeft, outcome, cliFlags, env, cacheFile, outDir, COMPONENTS,
                 BLOCKS, cache, storyExamples, newCache, registry, editsLeft,
                 faultsLeft, prev>>

\* generateRegistry: the two loops over the results fill newCache.
Assemble ==
  /\ pc = "assemble"
  /\ newCache' = BuildNewCache(componentResults, blockResults)
  /\ pc' = "save"
  /\ UNCHANGED <<aside, run, runsLeft, outcome, cliFlags, env, cacheFile, outDir, COMPONENTS,
                 BLOCKS, cache, storyExamples, call, componentResults,
                 blockResults, registry, editsLeft, faultsLeft, log, prev>>

\* generateRegistry: saveCache(newCache), then the registry is returned to main.
SaveCache ==
  /\ pc = "save"
  /\ cacheFile' = saveCache(newCache)
  /\ registry' = BuildRegistry(componentResults, blockResults, srcFile)
  /\ log' = [log EXCEPT !.cacheWrites = @ + 1]
  /\ pc' = "writeJson"
  /\ UNCHANGED <<aside, run, runsLeft, outcome, cliFlags, env, outDir, COMPONENTS, BLOCKS, cache,
                 storyExamples, call, componentResults, blockResults, newCache,
                 editsLeft, faultsLeft, prev>>

\* main: writeFileSync(jsonPath, JSON.stringify(registry, null, 2)).
WriteJson ==
  /\ pc = "writeJson"
  /\ outDir' = [outDir EXCEPT !.json = Artifact("json", registry)]
  /\ pc' = "writeMd"
  /\ UNCHANGED <<aside, run, runsLeft, outcome, cliFlags, env, cacheFile, locals, editsLeft,
                 faultsLeft, log, prev>>

\* main: writeFileSync(mdPath, aiContext).
WriteMd ==
  /\ pc = "writeMd"
  /\ outDir' = [outDir EXCEPT !.md = Artifact("md", registry)]
  /\ pc' = "writeTs"
  /\ UNCHANGED <<aside, run, runsLeft, outcome, cliFlags, env, cacheFile, locals, editsLeft,
                 faultsLeft, log, prev>>

\* main: writeFileSync(schemasPath, schemasContent); main returns.
WriteSchemas ==
  /\ pc = "writeTs"
  /\ outDir' = [outDir EXCEPT !.ts = Artifact("ts", registry)]
  /\ Finish("done", registry)
  /\ UNCHANGED <<aside, run, runsLeft, cliFlags, env, cacheFile, locals, editsLeft, faultsLeft, log>>

\* main: mkdirSync or a writeFileSync throws (or the process is killed); the
\* files written before it stay as written.
WriteThrows ==
  /\ pc \in {"writeJson", "writeMd", "writeTs"}
  /\ faultsLeft > 0
  /\ faultsLeft' = faultsLeft - 1
  /\ Finish("failed", registry)
  /\ UNCHANGED <<aside, run, runsLeft, cliFlags, env, cacheFile, outDir, locals, editsLeft, log>>

(* ------------------------------------------------------------ environment *)

DiscoveredPaths ==
  {<<"component", m>> : m \in 1 .. dirs.n}
    \cup {<<"block", dirs.base + j>> : j \in 1 .. dirs.nb}

CanEdit == pc = "idle" /\ run > 0 /\ runsLeft > 0 /\ editsLeft > 0

\* A unit's source file is edited between two runs.
EditSource ==
  /\ CanEdit
  /\ editsLeft' = editsLeft - 1
  /\ \E p \in DiscoveredPaths :
       \E c \in Contents \ {srcFile[p]} : srcFile' = [srcFile EXCEPT ![p] = c]
  /\ UNCHANGED <<aside, pc, run, runsLeft, outcome, cliFlags, dirs, storyFile, demoFile, cacheFile,
                 outDir, locals, faultsLeft, log, prev>>

\* A unit's story file is written, edited or removed between two runs.
EditStory ==
  /\ CanEdit
  /\ editsLeft' = editsLeft - 1
  /\ \E p \in DiscoveredPaths :
       \E c \in {"v1", Absent} \ {storyFile[p]} :
         storyFile' = [storyFile EXCEPT ![p] = c]
  /\ UNCHANGED <<aside, pc, run, runsLeft, outcome, cliFlags, dirs, srcFile, demoFile, cacheFile,
                 outDir, locals, faultsLeft, log, prev>>

\* The documentation site's build rewrites or removes demo-metadata.json.
EditDemo ==
  /\ CanEdit
  /\ editsLeft' = editsLeft - 1
  /\ \E c \in {"v2", Absent} \ {demoFile} : demoFile' = c
  /\ UNCHANGED <<aside, pc, run, runsLeft, outcome, cliFlags, dirs, srcFile, storyFile, cacheFile,
                 outDir, locals, faultsLeft, log, prev>>

\* The generator's steps in which nothing throws.
Steps ==
  \/ Start
  \/ Discover
  \/ Load
  \/ ProcessUnit
  \/ AwaitBatch
  \/ ReturnResults
  \/ Assemble
  \/ SaveCache
  \/ WriteJson
  \/ WriteMd
  \/ WriteSchemas

\* The generator's steps.
Next ==
  \/ Steps
  \/ ProcessUnitThrows
  \/ AwaitBatchRejects
  \/ WriteThrows

\* One run of the generator over up to MaxComponents components, in which a
\* unit's processing or a write may throw.
Spec == Init /\ [][Next]_vars

\* The generator's steps and the environment's.
NextRuns ==
  \/ Steps
  \/ EditSource
  \/ EditStory
  \/ EditDemo

\* Successive runs of the generator in which nothing throws, the environment
\* editing files between them.
SpecRuns == InitRuns /\ [][NextRuns]_vars

(* ----------------------------------------------------- one regeneration *)

\* The sequences over S of lo to hi elements.
SeqsOf(S, lo, hi) == UNION {[1 .. k -> S] : k \in lo .. hi}

\* Variant tables as the components declare them.
OptionNames == <<"sm", "base", "lg", "xl">>

\* An option of a variant table entry: bare, with a description and empty
\* classes (pagination.tsx), or with description, classes and stateClasses.
OptionVals ==
  { [description |-> ""],
    [description |-> "an option", classes |-> ""],
    [description |-> "an option", classes |-> "px-2", stateClasses |-> "hover:px-3"] }

\* KUMO_<NAME>_VARIANTS: empty (field.tsx), one entry of options
\* (pagination.tsx), or one entry given as an array (tabs.tsx).
VariantTables ==
  { << >> }
  \cup { "size" :> OptionsObject(SubSeq(OptionNames, 1, Len(vals)), vals) :
           vals \in SeqsOf(OptionVals, 1, MaxOptions) }
  \cup { "variant" :> OptionsArray(<<"segmented", "underline">>) }

\* KUMO_<NAME>_DEFAULT_VARIANTS for a table: none, or the first option of
\* each entry.
DefaultTables(variants) ==
  { << >>, [propName \in DOMAIN variants |-> variants[propName].names[1]] }

ReaderConfig(variants, defaults) ==
  [name |-> 1, type |-> "component", category |-> CategoryOf(1),
   propsType |-> "Props", variants |-> variants, defaults |-> defaults]

ReaderConfigs ==
  { ReaderConfig(variants, defaults) :
      variants \in VariantTables,
      defaults \in UNION {DefaultTables(v) : v \in VariantTables} }

\* A config whose defaults are of its own table.
WellFormed(config) == config.defaults \in DefaultTables(config.variants)

PlainConfig == ReaderConfig(<< >>, << >>)
TabsConfig ==
  ReaderConfig("variant" :> OptionsArray(<<"segmented", "underline">>),
               "variant" :> "segmented")
SizeConfig ==
  ReaderConfig("size" :> OptionsObject(<<"sm">>, <<[description |-> "an option",
                                                    classes |-> ""]>>),
               "size" :> "sm")

\* Definitions ts-json-schema-generator emits beside the props type.
StringDef == [type |-> TypeName("string")]
EnumDef == [enum |-> <<"small", "large">>]
ObjA ==
  [properties |-> ("size" :> [ref |-> "Size"]) @@ ("id" :> StringDef)
                  @@ ("key" :> StringDef),
   required |-> <<"size">>]
ObjB ==
  [properties |-> ("size" :> [ref |-> "Size"]) @@ ("label" :> StringDef),
   required |-> <<"size", "label">>]
ObjC == [properties |-> ("title" :> StringDef), required |-> <<"title">>]

TypeDefinitions ==
  ("A" :> ObjA) @@ ("B" :> ObjB) @@ ("C" :> ObjC)
  @@ ("AandC" :> [allOf |-> <<[ref |-> "A"], [ref |-> "C"]>>])
  @@ ("AorC" :> [anyOf |-> <<[ref |-> "A"], [ref |-> "C"]>>])
  @@ ("Alias" :> [ref |-> "A"])
  @@ ("Size" :> EnumDef)
  @@ ("KumoCodeLang" :> [enum |-> <<"ts", "tsx">>])

\* The branches of an intersection and the members of a union: an inline
\* object, references, and a branch that is itself an intersection or union.
Parts ==
  { ObjB, [ref |-> "A"], [ref |-> "C"], [ref |-> "AandC"], [ref |-> "AorC"],
    [ref |-> "Alias"], [ref |-> "Missing"],
    [allOf |-> <<[ref |-> "A"], [ref |-> "C"]>>],
    [anyOf |-> <<[ref |-> "A"], [ref |-> "C"]>>] }

\* The shapes the props type can have.
MainDefs ==
  { ObjA, [ref |-> "Alias"], [ref |-> "AandC"], [type |-> TypeName("object")] }
  \cup { [allOf |-> parts] : parts \in SeqsOf(Parts, 1, MaxParts) }
  \cup { [anyOf |-> parts] : parts \in SeqsOf(Parts, 1, MaxParts) }
  \cup { [oneOf |-> parts] : parts \in SeqsOf(Parts, 1, MaxParts) }

\* The shapes a property's definition can have.
UnionMembers ==
  { [type |-> TypeName("null")], [type |-> TypeName("undefined")],
    StringDef, [ref |-> "ReactNode"] }

PropDefs ==
  { [ref |-> "ReactNode"], [ref |-> "KumoCodeLang"], [ref |-> "Missing"],
    [ref |-> ""], EnumDef, StringDef,
    [type |-> TypeName("string"), description |-> "a property"],
    [type |-> TypeList(<<>>)], [type |-> TypeList(<<"string", "null">>)],
    [description |-> "a property"],
    [type |-> TypeName("array")],
    [type |-> TypeName("array"), items |-> StringDef],
    [type |-> TypeName("array"), items |-> [ref |-> "ReactElement"]],
    [type |-> TypeName("array"), items |-> [type |-> TypeList(<<>>)]] }
  \cup { [anyOf |-> members] : members \in SeqsOf(UnionMembers, 0, MaxParts) }
  \cup { [oneOf |-> members] : members \in SeqsOf(UnionMembers, 1, 1) }

SchemaOf(mainDef) == Schema(("Props" :> mainDef) @@ TypeDefinitions)

\* The props type is an object with one property, named as a variant is.
PropSchemasOf(defs) ==
  UNION { { SchemaOf([properties |-> (propName :> def), required |-> required]) :
              def \in defs, required \in {<<>>, <<propName>>} } :
          propName \in {"size", "variant"} }

PropSchemas == PropSchemasOf(PropDefs)

\* The property of a variant as ts-json-schema-generator gives it: a union of
\* string literals, inline or by reference.
VariantPropSchemas == PropSchemasOf({EnumDef, [ref |-> "Size"]})

\* createSchema threw, or returned definitions without the props type.
Unresolved == { Throws, Schema(TypeDefinitions) }

\* ADDITIONAL_COMPONENT_PROPS[config.name] and PROP_TYPE_OVERRIDES[config.name]
\* of metadata.js.
AdditionalProps ==
  { << >>,
    "id" :> [type |-> <<"string">>, description |-> "The element's id"],
    "size" :> [description |-> "The size"] }

TypeOverrides == { << >>, "id" :> <<"ReactNode">>, "size" :> <<"string">> }

\* detectSubComponents of sub-components.js: the members a source exports.
MemberNames == {"Root", "Item"}

Members ==
  UNION { { [name |-> name, isPassThrough |-> FALSE, description |-> "from source"],
            [name |-> name, isPassThrough |-> FALSE, description |-> "from source",
             baseComponent |-> "Popup"],
            [name |-> name, isPassThrough |-> TRUE],
            [name |-> name, isPassThrough |-> TRUE, description |-> "from source",
             baseComponent |-> "Popup"],
            [name |-> name, isPassThrough |-> TRUE, baseComponent |-> "Arrow"],
            [name |-> name, isPassThrough |-> TRUE, description |-> "from source",
             baseComponent |-> "Unlisted"] } : name \in MemberNames }

Detections == SeqsOf(Members, 0, MaxDetected)

ReaderInput(config, tsj, additionalProps, typeOverrides, detected) ==
  [stage |-> "generate", config |-> config, tsj |-> tsj,
   additionalProps |-> additionalProps, typeOverrides |-> typeOverrides,
   detected |-> detected, props |-> << >>,
   subComponentSchemas |-> NoSubComponents, schema |-> << >>]

\* The regenerations followed: every variant table with a variant's property
\* and with an unresolved type; every property shape; every shape of the props
\* type; the metadata tables; every detection.
ReaderInputs ==
  { ReaderInput(config, tsj, << >>, << >>, <<>>) :
      config \in {c \in ReaderConfigs : WellFormed(c)},
      tsj \in Unresolved \cup VariantPropSchemas }
  \cup { ReaderInput(config, tsj, << >>, << >>, <<>>) :
           config \in {PlainConfig, SizeConfig, TabsConfig}, tsj \in PropSchemas }
  \cup { ReaderInput(config, SchemaOf(mainDef), << >>, << >>, <<>>) :
           config \in {PlainConfig, SizeConfig}, mainDef \in MainDefs }
  \cup { ReaderInput(SizeConfig, tsj, additionalProps, typeOverrides, <<>>) :
           tsj \in {Throws, SchemaOf(ObjA)}, additionalProps \in AdditionalProps,
           typeOverrides \in TypeOverrides }
  \cup { ReaderInput(SizeConfig, SchemaOf(ObjA), << >>, << >>, detected) :
           detected \in Detections }

\* The generator is not run.
GeneratorIdle ==
  /\ InitOver(0, 0, 0, 0, 0, FALSE, {"ascending"}, {"v1"})
  /\ cacheFile.state = "missing"

InitReader ==
  /\ GeneratorIdle
  /\ reader \in ReaderInputs
  /\ styles = NoStyles
  /\ pagination = NoPagination

\* processComponent: const props = generatePropsFromType(config).
GenerateProps ==
  /\ reader.stage = "generate"
  /\ reader' = [reader EXCEPT
                  !.props = generatePropsFromType(reader.config, reader.tsj),
                  !.stage = "inject"]
  /\ UNCHANGED <<generator, styles, pagination>>

\* processComponent: the additional props and the type overrides.
InjectProps ==
  /\ reader.stage = "inject"
  /\ reader' = [reader EXCEPT
                  !.props = ApplyTypeOverrides(
                              ApplyAdditionalProps(reader.props,
                                                   reader.additionalProps),
                              reader.typeOverrides),
                  !.stage = "detect"]
  /\ UNCHANGED <<generator, styles, pagination>>

\* processComponent: detectSubComponents and the loop over its members.
DetectSubComponents ==
  /\ reader.stage = "detect"
  /\ reader' = [reader EXCEPT
                  !.subComponentSchemas =
                     DetectedSubComponentSchemas(reader.detected),
                  !.stage = "schema"]
  /\ UNCHANGED <<generator, styles, pagination>>

\* processComponent: const schema = {...}.
BuildSchema ==
  /\ reader.stage = "schema"
  /\ reader' = [reader EXCEPT
                  !.schema = ComponentSchemaOf(reader.config, reader.props,
                                               reader.subComponentSchemas),
                  !.stage = "done"]
  /\ UNCHANGED <<generator, styles, pagination>>

NextReader ==
  \/ GenerateProps
  \/ InjectProps
  \/ DetectSubComponents
  \/ BuildSchema

\* One regeneration in processComponent, from generatePropsFromType to the
\* ComponentSchema.
SpecReader == InitReader /\ [][NextReader]_vars

(* ------------------------------------------------------- the styles build *)

\* build-css: the raw CSS files copied for Tailwind users.
cssFiles == <<"kumo.css", "kumo-binding.css", "theme-kumo.css", "theme-fedramp.css">>

\* The entries a block's directory can hold: a source file, a barrel file and
\* a directory whose name ends in .tsx.
BlockEntries ==
  { [name |-> "page.tsx", isFile |-> TRUE],
    [name |-> "index.ts", isFile |-> TRUE],
    [name |-> "parts.tsx", isFile |-> FALSE] }

EndsWithTsx(name) == name \in {"page.tsx", "parts.tsx"}

\* src/blocks: missing, or a directory of up to MaxBlockDirs block directories.
BlockSources ==
  { [exists |-> FALSE, blockDirs |-> <<>>] }
  \cup { [exists |-> TRUE, blockDirs |-> blockDirs] :
           blockDirs \in SeqsOf(SUBSET BlockEntries, 0, MaxBlockDirs) }

\* The files copyBlockFiles copies: the .tsx files of each block directory.
CopiedBlockFiles(blockDirs) ==
  UNION { { <<d, entry.name>> :
              entry \in {e \in blockDirs[d] : EndsWithTsx(e.name) /\ e.isFile} } :
          d \in DOMAIN blockDirs }

InitStyles ==
  /\ GeneratorIdle
  /\ reader = NoReader
  /\ pagination = NoPagination
  /\ \E cssSrc \in SUBSET Range(cssFiles), tailwindOk \in BOOLEAN,
        blocksSrc \in BlockSources :
       styles = [pc |-> "start", i |-> 0, cssSrc |-> cssSrc,
                 tailwindOk |-> tailwindOk, blocksSrc |-> blocksSrc,
                 dist |-> {}, standalone |-> FALSE, blocksDist |-> {},
                 warnings |-> {}, steps |-> <<>>, exited |-> FALSE,
                 exitCode |-> 0]

Step(name) == [styles EXCEPT !.steps = Append(@, name)]

\* build-css: dist/styles is created if it does not exist.
MakeDistDir ==
  /\ styles.pc = "start"
  /\ styles' = [Step("mkdir") EXCEPT !.pc = "css"]
  /\ UNCHANGED <<generator, reader, pagination>>

\* build-css: cssFiles.forEach: the file is copied, or a warning says that it
\* was not found.
CopyCssFile ==
  /\ styles.pc = "css"
  /\ LET file == cssFiles[styles.i + 1]
         next == IF styles.i + 1 = Len(cssFiles) THEN "compile" ELSE "css"
     IN  styles' =
           IF file \in styles.cssSrc
           THEN [Step(file) EXCEPT !.dist = @ \cup {file}, !.i = @ + 1, !.pc = next]
           ELSE [Step(file) EXCEPT !.warnings = @ \cup {file}, !.i = @ + 1,
                                   !.pc = next]
  /\ UNCHANGED <<generator, reader, pagination>>

\* build-css: execSync(npx tailwindcss ...) returns.
CompileCss ==
  /\ styles.pc = "compile"
  /\ styles.tailwindOk
  /\ styles' = [Step("compile") EXCEPT !.standalone = TRUE, !.pc = "blocks"]
  /\ UNCHANGED <<generator, reader, pagination>>

\* CompileCssFails, were the error logged and the build carried on.
CompileCssFailsAndGoesOn ==
  /\ styles.pc = "compile"
  /\ ~styles.tailwindOk
  /\ styles' = [Step("compile") EXCEPT !.pc = "blocks"]
  /\ UNCHANGED <<generator, reader, pagination>>

\* build-css: execSync throws; the error is logged and process.exit(1) called.
CompileCssFails ==
  /\ styles.pc = "compile"
  /\ ~styles.tailwindOk
  /\ styles' = [Step("compile") EXCEPT !.pc = "exited", !.exited = TRUE,
                                      !.exitCode = 1]
  /\ UNCHANGED <<generator, reader, pagination>>

\* build-css: copyBlockFiles(blocksSrcDir, blocksDistDir); the script ends.
CopyBlockFiles ==
  /\ styles.pc = "blocks"
  /\ styles' =
       IF ~styles.blocksSrc.exists
       THEN [Step("blocks") EXCEPT !.warnings = @ \cup {"blocks"},
                                   !.pc = "done", !.exited = TRUE]
       ELSE [Step("blocks") EXCEPT
               !.blocksDist = CopiedBlockFiles(styles.blocksSrc.blockDirs),
               !.pc = "done", !.exited = TRUE]
  /\ UNCHANGED <<generator, reader, pagination>>

NextStyles ==
  \/ MakeDistDir
  \/ CopyCssFile
  \/ CompileCss
  \/ CompileCssFails
  \/ CopyBlockFiles

\* One run of the styles build.
SpecStyles == InitStyles /\ [][NextStyles]_vars

(* -------------------------------------------------------------- Pagination *)

\* A JavaScript number: an integer, or NaN.
Num(n) == [nan |-> FALSE, v |-> n]
NaN == [nan |-> TRUE, v |-> 0]

\* Math.max and Math.min: NaN if an argument is NaN.
MathMax(a, b) == IF a.nan \/ b.nan THEN NaN ELSE IF a.v >= b.v THEN a ELSE b
MathMin(a, b) == IF a.nan \/ b.nan THEN NaN ELSE IF a.v <= b.v THEN a ELSE b

\* a + n and a - n.
Plus(a, n) == IF a.nan THEN NaN ELSE Num(a.v + n)

\* a <= b and a === b: false if an operand is NaN.
LessOrEqual(a, b) == ~a.nan /\ ~b.nan /\ a.v <= b.v
StrictEquals(a, b) == ~a.nan /\ ~b.nan /\ a.v = b.v

\* An optional prop: not given, or given with a value.
NoProp == [given |-> FALSE, v |-> 0]
Prop(n) == [given |-> TRUE, v |-> n]

\* prop ?? otherwise, and a parameter's default.
OrElse(prop, otherwise) == IF prop.given THEN prop.v ELSE otherwise

\* Math.ceil(a / b) of a >= 0 and b > 0.
CeilOfQuotient(a, b) == (a + b - 1) \div b

\* Pagination: maxPage.
maxPageOf(totalCount, perPage) ==
  Num(CeilOfQuotient(OrElse(totalCount, 1), OrElse(perPage, 1)))

\* The texts typed into the page input and Number(value) of each.
Texts == {"", "abc", "0", "2", "9", "-1"}

NumberOf(text) ==
  CASE text = "" -> Num(0)
    [] text = "abc" -> NaN
    [] text = "0" -> Num(0)
    [] text = "2" -> Num(2)
    [] text = "9" -> Num(9)
    [] text = "-1" -> Num(0 - 1)

\* The props a parent mounts Pagination with, and whether its setPage applies
\* the page it is passed.
PageProps == {NoProp} \cup {Prop(n) : n \in 1 .. MaxPage}
PerPageProps == {NoProp, Prop(1), Prop(2)}
TotalCountProps == {NoProp} \cup {Prop(n) : n \in 0 .. MaxTotalCount}

\* Before the first effect: useState(1), and the effect of the mount pending.
InitPagination ==
  /\ GeneratorIdle
  /\ reader = NoReader
  /\ styles = NoStyles
  /\ \E page \in PageProps, perPage \in PerPageProps,
        totalCount \in TotalCountProps, controls \in {"full", "simple"},
        applies \in BOOLEAN :
       pagination =
         [mounted |-> TRUE, page |-> Num(OrElse(page, 1)), perPage |-> perPage,
          totalCount |-> totalCount, controls |-> controls, applies |-> applies,
          editingPage |-> Num(1), effectPending |-> TRUE, event |-> "mount",
          passed |-> NaN, called |-> FALSE]

maxPage == maxPageOf(pagination.totalCount, pagination.perPage)

\* An event is handled once the effects of the last render have run.
Idle == pagination.mounted /\ ~pagination.effectPending

\* useEffect(() => setEditingPage(page), [page]).
RunEffect ==
  /\ pagination.mounted
  /\ pagination.effectPending
  /\ pagination' = [pagination EXCEPT !.editingPage = pagination.page,
                                      !.effectPending = FALSE]
  /\ UNCHANGED <<generator, reader, styles>>

\* A handler's setPage(value); setEditingPage(value): the parent applies the
\* page or not, and the effect is due if the page prop has changed.
Handle(event, value) ==
  pagination' =
    [pagination EXCEPT
       !.passed = value,
       !.called = TRUE,
       !.event = event,
       !.editingPage = value,
       !.page = IF pagination.applies THEN value ELSE @,
       !.effectPending = pagination.applies /\ value # pagination.page]

\* First page: onClick.
ClickFirst ==
  /\ Idle
  /\ pagination.controls = "full"
  /\ ~LessOrEqual(pagination.page, Num(1))
  /\ Handle("click", Num(1))
  /\ UNCHANGED <<generator, reader, styles>>

\* Previous page: onClick.
ClickPrevious ==
  /\ Idle
  /\ ~LessOrEqual(pagination.page, Num(1))
  /\ Handle("click", MathMax(Plus(pagination.page, 0 - 1), Num(1)))
  /\ UNCHANGED <<generator, reader, styles>>

\* Page number: onValueChange.
TypeText ==
  /\ Idle
  /\ pagination.controls = "full"
  /\ \E text \in Texts :
       pagination' = [pagination EXCEPT !.editingPage = NumberOf(text),
                                        !.event = "typed"]
  /\ UNCHANGED <<generator, reader, styles>>

\* Page number: onBlur.
Blur ==
  /\ Idle
  /\ pagination.controls = "full"
  /\ Handle("blur", MathMin(MathMax(pagination.editingPage, Num(1)), maxPage))
  /\ UNCHANGED <<generator, reader, styles>>

\* Next page: onClick.
ClickNext ==
  /\ Idle
  /\ ~StrictEquals(pagination.page, maxPage)
  /\ Handle("click", MathMin(Plus(pagination.page, 1), maxPage))
  /\ UNCHANGED <<generator, reader, styles>>

\* Last page: onClick.
ClickLast ==
  /\ Idle
  /\ pagination.controls = "full"
  /\ ~StrictEquals(pagination.page, maxPage)
  /\ Handle("click", maxPage)
  /\ UNCHANGED <<generator, reader, styles>>

\* The parent renders Pagination with another page.
ParentChangesPage ==
  /\ Idle
  /\ \E page \in 1 .. MaxPage :
       /\ Num(page) # pagination.page
       /\ pagination' = [pagination EXCEPT !.page = Num(page),
                                           !.effectPending = TRUE,
                                           !.event = "page"]
  /\ UNCHANGED <<generator, reader, styles>>

NextPagination ==
  \/ RunEffect
  \/ ClickFirst
  \/ ClickPrevious
  \/ TypeText
  \/ Blur
  \/ ClickNext
  \/ ClickLast
  \/ ParentChangesPage

\* A mounted Pagination, its user and its parent.
SpecPagination == InitPagination /\ [][NextPagination]_vars

\* The same, with React running every effect that is due; the user and the
\* parent may stop acting.
SpecPaginationFair == SpecPagination /\ WF_vars(RunEffect)

(* ------------------------------------------------------------- properties *)

Phases == {"components", "blocks"}
ConfigsOf(phase) == IF phase = "components" THEN COMPONENTS ELSE BLOCKS
ReturnedResults(phase) ==
  IF phase = "components" THEN componentResults ELSE blockResults

\* The batch a position of configs falls in.
BatchOf(j) == (j - 1) \div BATCH_SIZE

ExactlyOnce(configs, results) ==
  /\ Len(results) = Len(configs)
  /\ \A k \in DOMAIN configs :
       Cardinality({j \in DOMAIN results : results[j].name = configs[k].name}) = 1

ProcessedOnce(phase) ==
  \A k \in DOMAIN ConfigsOf(phase) :
    Cardinality({j \in DOMAIN log.processed :
                   log.processed[j] = <<phase, ConfigsOf(phase)[k].name>>}) = 1

\* C1: a call of processComponentsInParallel in which no unit throws returns
\* as many results as it was given configs, each config's result exactly once,
\* and has processed each config exactly once.
C1_EveryConfigOnce ==
  \A phase \in log.returned :
    /\ ExactlyOnce(ConfigsOf(phase), ReturnedResults(phase))
    /\ ProcessedOnce(phase)

\* C1's case: a call over BATCH_SIZE + 1 configs (a full batch and a batch of
\* one) has returned.
C1_Witness ==
  /\ "components" \in log.returned
  /\ Len(COMPONENTS) = BATCH_SIZE + 1

\* C2: at most BATCH_SIZE units are started and not yet collected by their
\* batch's await; a unit of a later batch starts only when every unit of the
\* earlier batches has settled and been collected; a block starts only when
\* every component has.
C2_BatchesInTurn ==
  /\ Cardinality(log.started \ log.collected) <= BATCH_SIZE
  /\ \A u \in log.started :
       \A j \in 1 .. (u[2] - 1) :
         BatchOf(j) < BatchOf(u[2]) =>
           <<u[1], j>> \in (log.settled \cap log.collected)
  /\ (\E u \in log.started : u[1] = "blocks") =>
       \A k \in DOMAIN COMPONENTS :
         <<"components", k>> \in (log.settled \cap log.collected)

\* C2's case: a unit of the second batch of components and a block have started.
C2_Witness ==
  /\ <<"components", BATCH_SIZE + 1>> \in log.started
  /\ <<"blocks", 1>> \in log.started

SameBatch(u, v) == u[1] = v[1] /\ BatchOf(u[2]) = BatchOf(v[2])

\* C3 as claimed: when a unit throws, its batch's other units are processed to
\* completion and their results are in the call's output once the run is over.
C3_SiblingResultsInOutput ==
  pc = "idle" =>
    \A u \in log.rejected :
      \A j \in DOMAIN ConfigsOf(u[1]) :
        (SameBatch(u, <<u[1], j>>) /\ <<u[1], j>> \notin log.rejected) =>
          /\ <<u[1], j>> \in log.settled
          /\ u[1] \in log.returned
          /\ \E k \in DOMAIN ReturnedResults(u[1]) :
               ReturnedResults(u[1])[k].name = ConfigsOf(u[1])[j].name

\* C3 as amended: when a unit throws, every unit of its batch is still
\* processed to completion, but the call returns nothing: no later batch and
\* no later call starts, and the run fails.
C3_SiblingsRunButCallFails ==
  \A u \in log.rejected :
    /\ u[1] \notin log.returned
    /\ \A v \in log.started :
         \/ (v[1] = u[1] /\ BatchOf(v[2]) <= BatchOf(u[2]))
         \/ (v[1] = "components" /\ u[1] = "blocks")
    /\ pc = "idle" =>
         /\ outcome = "failed"
         /\ \A j \in DOMAIN ConfigsOf(u[1]) :
              SameBatch(u, <<u[1], j>>) => <<u[1], j>> \in log.settled

\* C3's case: the run is over, a unit threw and a unit mapped after it in the
\* same batch was fulfilled.
C3_Witness ==
  /\ pc = "idle"
  /\ \E u \in log.rejected :
       \E v \in log.settled \ log.rejected : SameBatch(u, v) /\ v[2] > u[2]

KindOf(phase) == IF phase = "components" THEN "component" ELSE "block"

FulfilledValues(promises) ==
  LET IsFulfilled(q) == q.settled = "fulfilled"
  IN  Values(SelectSeq(promises, IsFulfilled))

\* The results processComponent has returned so far in a phase of this build.
Produced(phase) ==
  IF phase \in log.returned THEN ReturnedResults(phase)
  ELSE IF pc = phase THEN call.results \o FulfilledValues(call.promises)
  ELSE <<>>

\* A build has been started and the last run was not a --help run.
InBuild == run > 0 /\ ~cliFlags.help

\* The loaded cache holds, under the name, an entry of the current version
\* whose hashes are those of the unit's files as they are.
StoredAndCurrent(phase, name) ==
  IF name \in DOMAIN cache.entries
  THEN /\ cache.entries[name].cacheVersion = CACHE_VERSION
       /\ cache.entries[name].sourceHash =
            hashFileContent(srcFile[<<KindOf(phase), name>>])
       /\ cache.entries[name].storyHash =
            hashFileContent(storyFile[<<KindOf(phase), name>>])
  ELSE FALSE

\* C4: with force mode off, a result is served from the cache, with the stored
\* metadata as its schema, exactly when the loaded cache holds under the unit's
\* name an entry of the current version with the current source and story
\* hashes; otherwise it is regenerated.
C4_CacheHitIffValid ==
  (InBuild /\ ~cliFlags.noCache) =>
    \A phase \in Phases :
      \A k \in DOMAIN Produced(phase) :
        LET r == Produced(phase)[k]
        IN  /\ r.cached <=> StoredAndCurrent(phase, r.name)
            /\ r.cached => r.schema = cache.entries[r.name].metadata
            /\ ~r.cached =>
                 r.schema = RegeneratedSchema(Config(KindOf(phase), r.name),
                                              srcFile[<<KindOf(phase), r.name>>],
                                              storyExamples)

\* C4's case: one component was served from the cache and another, whose
\* stored entry differs from the files in the story hash alone, was regenerated.
C4_Witness ==
  /\ InBuild /\ ~cliFlags.noCache
  /\ \E k \in DOMAIN Produced("components") : Produced("components")[k].cached
  /\ \E k \in DOMAIN Produced("components") :
       LET r == Produced("components")[k]
       IN  /\ ~r.cached
           /\ r.name \in DOMAIN cache.entries
           /\ cache.entries[r.name].cacheVersion = CACHE_VERSION
           /\ cache.entries[r.name].sourceHash =
                hashFileContent(srcFile[<<"component", r.name>>])
           /\ cache.entries[r.name].storyHash #
                hashFileContent(storyFile[<<"component", r.name>>])

\* C7: in force mode no result is served from the cache, and the cache file
\* stays as it was at the start of the build until the one saveCache, which
\* makes it the new snapshot.
C7_ForceRegeneratesAll ==
  (InBuild /\ cliFlags.noCache) =>
    /\ \A phase \in Phases :
         \A k \in DOMAIN Produced(phase) : ~Produced(phase)[k].cached
    /\ log.cacheWrites <= 1
    /\ log.cacheWrites = 0 => cacheFile = log.fileAtStart
    /\ log.cacheWrites = 1 => cacheFile = [state |-> "json", data |-> newCache]

\* C7's case: a forced build over a cache file with an entry that a lookup
\* would have served has saved its snapshot.
C7_Witness ==
  /\ InBuild /\ cliFlags.noCache
  /\ log.cacheWrites = 1
  /\ log.fileAtStart.state = "json"
  /\ \E k \in DOMAIN componentResults :
       StoredAndCurrent("components", componentResults[k].name)

UnitNames ==
  {COMPONENTS[k].name : k \in DOMAIN COMPONENTS}
    \cup {BLOCKS[k].name : k \in DOMAIN BLOCKS}

\* C9: the cache file is read before any unit is processed and at most once;
\* it is written at most once, after every component and block has been
\* processed, as a snapshot of the current version keyed by the units' names;
\* a build that runs to completion has read it once and written it once.
C9_ReadOnceWriteOnce ==
  InBuild =>
    /\ log.cacheReads = 0 => log.started = {}
    /\ log.cacheReads <= 1
    /\ log.cacheWrites <= 1
    /\ log.cacheWrites = 1 =>
         /\ Phases \subseteq log.returned
         /\ \A phase \in Phases :
              \A k \in DOMAIN ConfigsOf(phase) : <<phase, k>> \in log.settled
         /\ cacheFile.state = "json"
         /\ cacheFile.data.version = CACHE_VERSION
         /\ DOMAIN cacheFile.data.entries = UnitNames
    /\ outcome = "done" => (log.cacheReads = 1 /\ log.cacheWrites = 1)

\* C9's case: a build over components and blocks, started on a cache file an
\* earlier build left, has run to completion.
C9_Witness ==
  /\ InBuild
  /\ outcome = "done"
  /\ Len(COMPONENTS) > BATCH_SIZE
  /\ Len(BLOCKS) > 0
  /\ log.fileAtStart.state = "json"

Formats == {"json", "md", "ts"}

\* C10: after a run, also one that stopped between two of the writes, the
\* three files in ai/ describe the same registry.
C10_FilesAlwaysAgree ==
  (pc = "idle" /\ \A f \in Formats : outDir[f] # NoArtifact(f)) =>
    (outDir.json.of = outDir.md.of /\ outDir.md.of = outDir.ts.of)

\* The build before this one ran to completion, and both used the cache.
SecondOfTwoCachedRuns ==
  /\ pc = "writeJson"
  /\ prev.outcome = "done"
  /\ ~prev.cliFlags.noCache
  /\ ~cliFlags.noCache

\* The files differ from those of the build before in the source of p alone.
OnlySourceChanged(p) ==
  /\ Files.story = prev.files.story
  /\ Files.demo = prev.files.demo
  /\ Files.src[p] # prev.files.src[p]
  /\ \A q \in Paths \ {p} : Files.src[q] = prev.files.src[q]

AllCached(phase, names) ==
  \A k \in DOMAIN ReturnedResults(phase) :
    ReturnedResults(phase)[k].name \in names => ReturnedResults(phase)[k].cached

\* C5: when between two runs only the source of component C changed, the
\* second run regenerates C, serves every other component and block from the
\* cache and saves for them the entries it loaded.
C5_OnlyChangedRegenerated ==
  SecondOfTwoCachedRuns =>
    \A C \in 1 .. dirs.n :
      OnlySourceChanged(<<"component", C>>) =>
        /\ \A k \in DOMAIN componentResults :
             componentResults[k].name = C => ~componentResults[k].cached
        /\ AllCached("components", Names \ {C})
        /\ AllCached("blocks", Names)
        /\ \A name \in UnitNames \ {C} :
             /\ name \in DOMAIN cache.entries
             /\ newCache.entries[name] = cache.entries[name]

\* C6: a second run with no file changed in between yields the registry of
\* the first and serves every component and block from the cache.
C6_SecondRunAllCached ==
  (SecondOfTwoCachedRuns /\ Files = prev.files) =>
    /\ registry = prev.registry
    /\ AllCached("components", Names)
    /\ AllCached("blocks", Names)

IsSorted(names) ==
  \A i, j \in DOMAIN names : i < j => names[i] <= names[j]

CountOf(names, name) == Cardinality({k \in DOMAIN names : names[k] = name})

\* generateRegistry has returned the registry of this build.
RegistryBuilt == InBuild /\ log.cacheWrites = 1

\* C11: search.byName is the sorted list of the names of all discovered
\* components and blocks, whatever the order of discovery and processing.
C11_ByNameSorted ==
  RegistryBuilt =>
    LET byName == registry.search.byName
        discovered == NamesOf(COMPONENTS \o BLOCKS)
    IN  /\ IsSorted(byName)
        /\ Len(byName) = Len(discovered)
        /\ \A name \in Names : CountOf(byName, name) = CountOf(discovered, name)

\* C11's case: components of two batches and a block, discovered in descending
\* order of their names, have been assembled into a registry.
C11_Witness ==
  /\ RegistryBuilt
  /\ dirs.order = "descending"
  /\ Len(COMPONENTS) > BATCH_SIZE
  /\ Len(BLOCKS) > 0
  /\ ~IsSorted(NamesOf(COMPONENTS \o BLOCKS))

\* C12: the keys of registry.components and registry.blocks, the lists
\* search.byType.component and search.byType.block and every search.byCategory
\* list are in name-sorted order, whatever the discovery order was.
C12_AllListsSorted ==
  RegistryBuilt =>
    /\ IsSorted(registry.keyOrder.components)
    /\ IsSorted(registry.keyOrder.blocks)
    /\ IsSorted(registry.search.byType.component)
    /\ IsSorted(registry.search.byType.block)
    /\ \A c \in DOMAIN registry.search.byCategory :
         IsSorted(registry.search.byCategory[c])

(* ------------------------------------------- properties of a regeneration *)

\* The properties a type declares, by what its JSON schema means: those of an
\* object, of the definition a $ref names, of every branch of an intersection
\* and of every member of a union.
RECURSIVE DeclaredBy(_, _)
DeclaredBy(def, definitions) ==
  LET OfParts(field) ==
        IF Has(def, field)
        THEN UNION {DeclaredBy(def[field][k], definitions) : k \in DOMAIN def[field]}
        ELSE {}
  IN  (IF Has(def, "properties") THEN DOMAIN def.properties ELSE {})
      \cup (IF Has(def, "ref") /\ def.ref \in DOMAIN definitions
            THEN DeclaredBy(definitions[def.ref], definitions) ELSE {})
      \cup OfParts("allOf") \cup OfParts("anyOf") \cup OfParts("oneOf")

\* The properties a type requires: an intersection requires what one branch
\* requires, a union what all its members require.
RECURSIVE RequiredBy(_, _)
RequiredBy(def, definitions) ==
  LET InSome(field) ==
        IF Has(def, field)
        THEN UNION {RequiredBy(def[field][k], definitions) : k \in DOMAIN def[field]}
        ELSE {}
      InAll(field) ==
        IF Has(def, field)
        THEN {prop \in InSome(field) :
                \A k \in DOMAIN def[field] :
                  prop \in RequiredBy(def[field][k], definitions)}
        ELSE {}
  IN  (IF Has(def, "required") THEN Range(def.required) ELSE {})
      \cup (IF Has(def, "ref") /\ def.ref \in DOMAIN definitions
            THEN RequiredBy(definitions[def.ref], definitions) ELSE {})
      \cup InSome("allOf") \cup InAll("anyOf") \cup InAll("oneOf")

\* generatePropsFromType has returned the props of a resolved props type.
Resolved ==
  /\ reader.stage = "inject"
  /\ ~reader.tsj.throws
  /\ reader.config.propsType \in DOMAIN reader.tsj.definitions

ResolvedMainDef ==
  FollowRefs(reader.tsj.definitions[reader.config.propsType], reader.tsj.definitions)

IsUnion(def) == ~Has(def, "allOf") /\ (Has(def, "anyOf") \/ Has(def, "oneOf"))

\* The props are those the parts declare, each required exactly when it is in
\* required.
PropsAre(props, declared, required) ==
  /\ DOMAIN props = declared \ InternalProps
  /\ \A propName \in DOMAIN props :
       /\ Has(props[propName], "required") <=> propName \in required
       /\ Has(props[propName], "optional") <=> propName \notin required

\* C13: for a props type that is a union, the props are the properties any
\* member declares, and a prop is required exactly when every member requires
\* it.
C13_UnionMerge ==
  (Resolved /\ IsUnion(ResolvedMainDef)) =>
    PropsAre(reader.props,
             DeclaredBy(ResolvedMainDef, reader.tsj.definitions),
             RequiredBy(ResolvedMainDef, reader.tsj.definitions))

\* C14: for a props type that is an intersection, the props are the
\* properties of every branch, through references and through branches that
\* are themselves intersections or unions, and a prop is required exactly when
\* a branch requires it.
C14_IntersectionMerge ==
  (Resolved /\ Has(ResolvedMainDef, "allOf")) =>
    PropsAre(reader.props,
             DeclaredBy([allOf |-> ResolvedMainDef.allOf], reader.tsj.definitions),
             RequiredBy([allOf |-> ResolvedMainDef.allOf], reader.tsj.definitions))

\* An option of the entry defines the field.
SomeOptionDefines(variantDef, field) ==
  /\ ~variantDef.isArray
  /\ \E i \in DOMAIN variantDef.vals :
       Has(variantDef.vals[i], field) /\ variantDef.vals[i][field] # ""

\* C15: a prop named as an entry of the variant table is an enum whose values
\* are the entry's option names in declaration order, whose default is the
\* default variant when there is one, and which has descriptions, classes and
\* stateClasses exactly when an option defines them.
C15_VariantEnrichment ==
  Resolved =>
    \A propName \in DOMAIN reader.props \cap DOMAIN reader.config.variants :
      LET prop == reader.props[propName]
          variantDef == reader.config.variants[propName]
          defaults == reader.config.defaults
      IN  /\ prop.type = <<"enum">>
          /\ prop.values = variantDef.names
          /\ Has(prop, "default") <=> propName \in DOMAIN defaults
          /\ Has(prop, "default") => prop.default = defaults[propName]
          /\ Has(prop, "descriptions") <=> SomeOptionDefines(variantDef, "description")
          /\ Has(prop, "classes") <=> SomeOptionDefines(variantDef, "classes")
          /\ Has(prop, "stateClasses") <=> SomeOptionDefines(variantDef, "stateClasses")
          /\ \A field \in {"descriptions", "classes", "stateClasses"} :
               Has(prop, field) => DOMAIN prop[field] # {}

\* The props are those the ComponentSchema gets.
Injected == reader.stage \in {"detect", "schema", "done"}

\* C16: every prop of type enum has a non-empty list of values, and its
\* default, if it has one, is one of them.
C16_EnumValues ==
  Injected =>
    \A propName \in DOMAIN reader.props :
      LET prop == reader.props[propName]
      IN  prop.type = <<"enum">> =>
            /\ Has(prop, "values")
            /\ Len(prop.values) > 0
            /\ Has(prop, "default") => prop.default \in Range(prop.values)

\* C17: every prop made from a JSON schema definition has a non-empty type.
C17_TypeNonEmpty ==
  Resolved =>
    \A propName \in DOMAIN reader.props : reader.props[propName].type # <<>>

\* generatePropsFromType has returned for a props type that did not resolve.
Unresolvable ==
  /\ reader.stage = "inject"
  /\ \/ reader.tsj.throws
     \/ reader.config.propsType \notin DOMAIN reader.tsj.definitions

\* C18: when the props type does not resolve, the props are one enum per
\* entry of the variant table, className of type string and children of type
\* ReactNode.
C18_Fallback ==
  Unresolvable =>
    /\ DOMAIN reader.props = DOMAIN reader.config.variants \cup {"className", "children"}
    /\ \A propName \in DOMAIN reader.config.variants :
         reader.props[propName].type = <<"enum">>
    /\ reader.props["className"].type = <<"string">>
    /\ reader.props["children"].type = <<"ReactNode">>

\* The sub-component schemas have been made.
Detected == reader.stage \in {"schema", "done"}

\* The member that gives the schema under a name: the last one of that name.
Effective(k) ==
  \A j \in DOMAIN reader.detected :
    j > k => reader.detected[j].name # reader.detected[k].name

SchemaOfMember(k) == reader.subComponentSchemas.schemas[reader.detected[k].name]

\* The schema's documentation is that of the table's entry for the member's
\* base primitive.
FromDocs(schema, subComp) ==
  /\ Has(subComp, "baseComponent")
  /\ subComp.baseComponent \in DOMAIN PASSTHROUGH_COMPONENT_DOCS
  /\ LET doc == PASSTHROUGH_COMPONENT_DOCS[subComp.baseComponent]
     IN  /\ schema.description = doc.description
         /\ schema.props = doc.props
         /\ Get(schema, "usageExamples") = Get(doc, "usageExamples")
         /\ Get(schema, "renderElement") = Get(doc, "renderElement")

\* The schema's documentation is what was read from the component's source.
FromSource(schema, subComp) ==
  /\ schema.description = Get(subComp, "description")
  /\ schema.props = extractSubComponentProps(subComp)
  /\ ~Has(schema, "usageExamples")
  /\ ~Has(schema, "renderElement")

\* C19: the schema of every member flagged pass-through is documented from the
\* table's entry for its base primitive, with nothing from source; the props
\* of every other member are those extracted from source.
C19_PassThroughFromDocs ==
  Detected =>
    \A k \in DOMAIN reader.detected :
      Effective(k) =>
        IF reader.detected[k].isPassThrough
        THEN FromDocs(SchemaOfMember(k), reader.detected[k])
        ELSE SchemaOfMember(k).props = extractSubComponentProps(reader.detected[k])

\* C19, amended: a member flagged pass-through whose base primitive has an
\* entry in the table is documented from that entry; every other member,
\* flagged or not, is documented from source.
C19_PassThroughFromDocsIfListed ==
  Detected =>
    \A k \in DOMAIN reader.detected :
      Effective(k) =>
        IF /\ reader.detected[k].isPassThrough
           /\ Has(reader.detected[k], "baseComponent")
           /\ reader.detected[k].baseComponent \in DOMAIN PASSTHROUGH_COMPONENT_DOCS
        THEN FromDocs(SchemaOfMember(k), reader.detected[k])
        ELSE FromSource(SchemaOfMember(k), reader.detected[k])

\* C19's case: of two detected members, one is flagged pass-through with a
\* listed base primitive and one is flagged with a base primitive not listed.
C19_Witness ==
  /\ Detected
  /\ \E j, k \in DOMAIN reader.detected :
       /\ reader.detected[j].name # reader.detected[k].name
       /\ reader.detected[j].isPassThrough
       /\ Get(reader.detected[j], "baseComponent") = "Popup"
       /\ reader.detected[k].isPassThrough
       /\ Get(reader.detected[k], "baseComponent") = "Unlisted"

\* C20: the ComponentSchema has subComponents exactly when a member was
\* detected, and then with one entry per detected member name.
C20_SubComponentsIffDetected ==
  reader.stage = "done" =>
    /\ Has(reader.schema, "subComponents") <=> Len(reader.detected) > 0
    /\ Has(reader.schema, "subComponents") =>
         DOMAIN reader.schema.subComponents =
           {reader.detected[k].name : k \in DOMAIN reader.detected}

\* C20's case: a schema was built after two members of different names were
\* detected.
C20_Witness ==
  /\ reader.stage = "done"
  /\ Len(reader.detected) = 2
  /\ reader.detected[1].name # reader.detected[2].name
  /\ Has(reader.schema, "subComponents")

(* ------------------------------------------- properties of the whole build *)

\* The snippets demo-metadata.json, as it is, holds for a name.
DemoSnippets(name) ==
  IF demoFile # Absent /\ name \in DemoNames THEN <<demoFile>> ELSE <<>>

\* C21: with or without demo-metadata.json, a build fails only if a unit or a
\* write throws, and the examples of every regenerated schema are the config's
\* examples if it declares any, even the empty list, and otherwise the demo
\* snippets of its name, which are the empty list if there are none.
C21_ExamplesWithoutDemoFile ==
  InBuild =>
    /\ outcome = "failed" => faultsLeft < MaxFaults
    /\ \A phase \in Phases :
         \A k \in DOMAIN Produced(phase) :
           LET r == Produced(phase)[k]
               config == Config(KindOf(phase), r.name)
           IN  ~r.cached =>
                 /\ Has(r.schema, "examples")
                 /\ r.schema.examples =
                      IF Has(config, "examples") THEN config.examples
                      ELSE DemoSnippets(r.name)

\* C21's case: a build without demo-metadata.json has run to completion and
\* has regenerated a component that declares no examples, one that declares
\* the empty list and one that declares examples.
C21_Witness ==
  /\ InBuild
  /\ demoFile = Absent
  /\ outcome = "done"
  /\ \A m \in 1 .. 3 :
       \E k \in DOMAIN componentResults :
         /\ componentResults[k].name = m
         /\ ~componentResults[k].cached

\* C22: a run with --help ends at once: it discovers nothing, reads and
\* writes no cache, processes no unit and writes no artifact, whatever the
\* other flags; it ends as a run that did not fail.
C22_HelpRunsNothing ==
  /\ [](outcome = "help" => pc = "idle")
  /\ [][(run' # run /\ cliFlags'.help) =>
          /\ pc' = "idle"
          /\ outcome' = "help"
          /\ UNCHANGED <<COMPONENTS, BLOCKS, cache, storyExamples, call,
                         componentResults, blockResults, newCache, registry,
                         cacheFile, outDir, log, prev>>]_vars

\* C22's case: after a build that wrote the cache and the artifacts, a run
\* with --help and --no-cache has ended.
C22_Witness ==
  /\ run = 2
  /\ outcome = "help"
  /\ cliFlags.noCache
  /\ prev.outcome = "done"
  /\ cacheFile.state = "json"

\* The names of the units a call has returned results of.
ProcessedNames(results) == {results[k].name : k \in DOMAIN results}

PastCompile == styles.pc \in {"blocks", "done", "exited"}

\* C24: when the CSS compilation fails, the styles build exits with a code
\* other than 0 and copies no block file; a raw CSS file or a blocks directory
\* that is missing gives a warning, and the build goes on to its end.
C24_CompileFailureIsFatal ==
  styles.pc # "none" =>
    /\ (PastCompile /\ ~styles.tailwindOk) =>
         /\ styles.pc = "exited"
         /\ styles.exited /\ styles.exitCode # 0
         /\ "blocks" \notin Range(styles.steps)
         /\ styles.blocksDist = {}
    /\ (PastCompile /\ styles.tailwindOk) =>
         /\ styles.pc \in {"blocks", "done"}
         /\ styles.exitCode = 0
         /\ Range(cssFiles) \subseteq Range(styles.steps)
         /\ styles.dist = styles.cssSrc
         /\ styles.warnings \cap Range(cssFiles) = Range(cssFiles) \ styles.cssSrc
    /\ (styles.pc = "done") =>
         /\ styles.steps = <<"mkdir">> \o cssFiles \o <<"compile", "blocks">>
         /\ "blocks" \in styles.warnings <=> ~styles.blocksSrc.exists
         /\ styles.blocksDist = CopiedBlockFiles(styles.blocksSrc.blockDirs)
    /\ (styles.pc \in {"css", "compile", "blocks"}) => ENABLED NextStyles

\* C24's cases: the build has exited on a failed compilation, after a warning
\* for a missing raw CSS file, with block files left to copy.
C24_Witness ==
  /\ styles.pc = "exited"
  /\ styles.warnings # {}
  /\ styles.blocksSrc.exists
  /\ CopiedBlockFiles(styles.blocksSrc.blockDirs) # {}

\* The page input shows the page prop.
Synced == pagination.editingPage = pagination.page

\* The input was blurred, a button was clicked or the page prop was changed.
Touched == pagination.mounted /\ pagination.event \in {"blur", "click", "page"}

\* C25: after a blur of the page input, a click on a button or a change of
\* the page prop, editingPage eventually equals the page prop, whether the
\* parent applies the page passed to setPage or not.
C25_EditingPageSyncs == [](Touched => <>Synced)

\* C26: every value passed to setPage is an integer p with 1 <= p <= maxPage.
C26_SetPageInRange ==
  (pagination.mounted /\ pagination.called) =>
    /\ ~pagination.passed.nan
    /\ 1 <= pagination.passed.v
    /\ pagination.passed.v <= maxPage.v

\* C27: a schema served from the cache is the schema regeneration would
\* build in this run, while the run lasts, from the unit's config, its source
\* and the demo examples as they are.
C27_CachedEqualsRegenerated ==
  (InBuild /\ pc # "idle") =>
    \A phase \in Phases :
      \A k \in DOMAIN Produced(phase) :
        LET r == Produced(phase)[k]
        IN  r.cached =>
              r.schema = RegeneratedSchema(Config(KindOf(phase), r.name),
                                           srcFile[<<KindOf(phase), r.name>>],
                                           storyExamples)

\* The names the lists of search.byCategory hold.
CategorisedNames(byCategory) ==
  UNION {Range(byCategory[c]) : c \in DOMAIN byCategory}

\* C28: in the registry generateRegistry returns, the names of search.byName
\* are the keys of components and blocks, are the names of the two
\* search.byType lists and are the names of the search.byCategory lists, and
\* no search.byCategory list is empty.
C28_IndexesCoverEntries ==
  RegistryBuilt =>
    LET search == registry.search
        entries == DOMAIN registry.components \cup DOMAIN registry.blocks
    IN  /\ Range(search.byName) = entries
        /\ Range(search.byType.component) \cup Range(search.byType.block) = entries
        /\ CategorisedNames(search.byCategory) = entries
        /\ \A c \in DOMAIN search.byCategory : search.byCategory[c] # <<>>

\* A unit's processing has thrown in this build.
UnitThrew == InBuild /\ log.rejected # {}

\* C29: once the processing of a unit has thrown, the build goes no further
\* than the call the unit is in and ends as failed; saveCache is not called and
\* no artifact is written, so the cache file and the artifacts are as they were
\* at the start of the run.
C29_ThrowWritesNothing ==
  UnitThrew =>
    /\ pc \in {"components", "blocks", "idle"}
    /\ pc = "idle" => outcome = "failed"
    /\ pc # "idle" => \A pos \in log.rejected : pos[1] = pc
    /\ log.cacheWrites = 0
    /\ cacheFile = log.fileAtStart
    /\ outDir = log.outAtStart

\* C29's case: a block's processing threw after every component had been
\* processed, and the build ended with the cache file and the artifacts of an
\* earlier build in place.
C29_Witness ==
  /\ UnitThrew
  /\ pc = "idle" /\ outcome = "failed"
  /\ "components" \in log.returned
  /\ Len(componentResults) > 0
  /\ cacheFile.state = "json"
  /\ cacheFile.data.entries # << >>
  /\ outDir.json # NoArtifact("json")

\* C30: the snapshot saveCache wrote holds as many entries as components and
\* blocks were processed, none under a name that was not discovered, and for
\* each unit an entry of the current version with the hashes of the unit's
\* files and the schema returned for the unit.
C30_OneEntryPerUnit ==
  RegistryBuilt =>
    LET entries == cacheFile.data.entries
    IN  /\ Cardinality(DOMAIN entries) = Len(COMPONENTS) + Len(BLOCKS)
        /\ DOMAIN entries \subseteq UnitNames
        /\ \A phase \in Phases :
             \A k \in DOMAIN ReturnedResults(phase) :
               LET r == ReturnedResults(phase)[k]
                   path == <<KindOf(phase), r.name>>
               IN  /\ r.name \in DOMAIN entries
                   /\ entries[r.name].cacheVersion = CACHE_VERSION
                   /\ entries[r.name].sourceHash = hashFileContent(srcFile[path])
                   /\ entries[r.name].storyHash = hashFileContent(storyFile[path])
                   /\ entries[r.name].metadata = r.schema

====
